---------------------------- MODULE Spec2Model ----------------------------
(***************************************************************************)
(* A model of coreason-arbitrage: the request executor                     *)
(* (CompletionsWrapper.create), the Router, the provider health tracker    *)
(* (LoadBalancer), the Gatekeeper classifier and the model registry.       *)
(*                                                                         *)
(* Units.  Prices are integers in 1/1000 of a cost unit per 1000 tokens,   *)
(* so tokens * price is the cost in 1/1000000 of a cost unit.  Complexity  *)
(* and budget fractions are integers in 1/10000.  Time is in seconds.      *)
(***************************************************************************)
EXTENDS Integers, Sequences, FiniteSets, TLC

VARIABLES
    registry,              \* ModelRegistry._models, in insertion order
    budget_client,         \* ArbitrageEngine.budget_client ("None" or a client)
    audit_client,          \* ArbitrageEngine.audit_client  ("None" or a client)
    router_budget_client,  \* Router.budget_client, captured when the client is built
    max_retries,           \* smart_client.MAX_RETRIES as read by create()
    now,                   \* time.time()
    failures,              \* LoadBalancer._failures
    cooldown_until,        \* LoadBalancer._cooldown_until
    messages,              \* per request: the messages argument of create()
    pc,                    \* per request: position in create()
    attempt,               \* per request: loop index of create()
    routing_context,       \* per request: gatekeeper.classify(prompt)
    failed_providers,      \* per request: the exclusion set
    last_exception,        \* per request: last_exception
    model_def,             \* per request: the local model_def
    result,                \* per request: what create() returned or raised
    trace,                 \* per request: the calls create() made, in order
    lock,                  \* LoadBalancer._lock: "None" or the thread holding it
    thread,                \* per thread: its call on the LoadBalancer and its locals
    ncalls,                \* number of LoadBalancer calls the threads have begun
    sequential,            \* the tracker as the calls leave it when run one at a time
    history,               \* per provider: the record_failure and record_success calls
    route_call,            \* the last direct call of Router.route and its outcome
    reg_lock,              \* ModelRegistry._lock: "None" or the thread holding it
    reg_thread,            \* per thread: its call on the registry or engine and its locals
    reg_calls,             \* number of registry and engine calls the threads have begun
    inserted,              \* the ids registered since the last clear, by first insertion
    latest,                \* per id: the definition last registered since the last clear
    classify_call,         \* the last direct call of Gatekeeper.classify and its result
    engine_cls,            \* the class attributes of ArbitrageEngine and its one instance
    construct,             \* per thread: its ArbitrageEngine() or __init__ call
    engine_calls           \* number of constructions and __init__ calls the threads have begun

engineVars == <<registry, budget_client, audit_client, router_budget_client,
                max_retries>>
healthVars == <<failures, cooldown_until>>
requestVars == <<messages, pc, attempt, routing_context, failed_providers,
                 last_exception, model_def, result, trace>>
trackerVars == <<lock, thread, ncalls, sequential, history>>
routerVars == <<route_call>>
registryVars == <<reg_lock, reg_thread, reg_calls, inserted, latest>>
gatekeeperVars == <<classify_call>>
singletonVars == <<engine_cls, construct, engine_calls>>
vars == <<engineVars, now, healthVars, requestVars, trackerVars, routerVars, registryVars,
          gatekeeperVars, singletonVars>>

---------------------------------------------------------------------------
(* Bounds of the model *)

\* The clock stops advancing once it has reached MaxTime.
MaxTime == 300

---------------------------------------------------------------------------
(* Program constants *)

MAX_RETRIES == 3
FAILURE_THRESHOLD == 3
FAILURE_WINDOW_SECONDS == 60
COOLDOWN_PERIOD_SECONDS == 300
COMPLEXITY_THRESHOLD_LENGTH == 2000

RETRIABLE_ERRORS == {"RateLimitError", "ServiceUnavailableError", "APIConnectionError"}

TIER_1_FAST == "fast"
TIER_2_SMART == "smart"
TIER_3_REASONING == "reasoning"
ModelTier == {TIER_1_FAST, TIER_2_SMART, TIER_3_REASONING}

NoDomain == "None"

\* ModelDefinition; domain is the optional specialisation tag.
ModelDefinition(id, provider, tier, cin, cout, healthy, domain) ==
    [id |-> id, provider |-> provider, tier |-> tier,
     cost_per_1k_input |-> cin, cost_per_1k_output |-> cout,
     is_healthy |-> healthy, domain |-> domain]

NoModel == ModelDefinition("None", "None", "None", 0, 0, FALSE, NoDomain)

\* Variant of FallbackModelId: no default.
FallbackModelId_NoDefault(env) == env

\* create(): os.environ.get("ARBITRAGE_FALLBACK_MODEL", "azure/gpt-4o"), where
\* env is the variable's value or "unset".
FallbackModelId(env) == IF env = "unset" THEN "azure/gpt-4o" ELSE env

\* create(): the ad-hoc definition of the fail-open model.
FallbackModel(env) ==
    ModelDefinition(FallbackModelId(env), "failover", TIER_3_REASONING, 5, 15, TRUE,
                    NoDomain)

---------------------------------------------------------------------------
(* Small helpers *)

Range(s) == {s[i] : i \in 1..Len(s)}

\* The elements of s that are in keep, in the order of s.
SelectSeqBy(s, keep) ==
    LET Keep(x) == x \in keep IN SelectSeq(s, Keep)

\* str.lower() on the strings the model uses.
Lower(s) ==
    CASE s = "Medical" -> "medical"
      [] s = "MEDICAL" -> "medical"
      [] s = "Safety_Critical" -> "safety_critical"
      [] s = "Analyze" -> "analyze"
      [] s = "IMMEDIATE" -> "immediate"
      [] s = "Dose" -> "dose"
      [] OTHER -> s


---------------------------------------------------------------------------
(* The universe of the model: providers, models, prompts *)

Providers == {"P1", "P2"}

ModelA == ModelDefinition("a", "P1", TIER_1_FAST, 10, 20, TRUE, NoDomain)
ModelA2 == ModelDefinition("a2", "P1", TIER_1_FAST, 15, 25, TRUE, NoDomain)
ModelB == ModelDefinition("b", "P2", TIER_1_FAST, 30, 60, TRUE, NoDomain)
ModelM == ModelDefinition("medical-x", "P1", TIER_3_REASONING, 50, 70, TRUE, "Medical")
ModelG == ModelDefinition("generic", "P2", TIER_3_REASONING, 40, 80, TRUE, NoDomain)
ModelU == ModelDefinition("u", "P2", TIER_1_FAST, 1, 1, FALSE, NoDomain)

\* The registries a request may find, each in insertion order.
Registries ==
    { <<>>,
      <<ModelA>>,
      <<ModelA, ModelB>>,
      <<ModelU, ModelA, ModelA2, ModelB>>,
      <<ModelM, ModelG>> }

\* A prompt is its length in characters and its words (maximal runs of word
\* characters), in order; consecutive words are one space apart.
Prompt(n, words) == [chars |-> n, words |-> words]

EmptyPrompt == Prompt(0, <<>>)
HelloPrompt == Prompt(5, <<"hello">>)
ClinicalPrompt == Prompt(26, <<"Analyze", "this", "clinical", "data">>)

Message(role, content) == [role |-> role, content |-> content]

MessageLists ==
    { <<>>,
      <<Message("user", ClinicalPrompt), Message("assistant", HelloPrompt)>>,
      <<Message("user", ClinicalPrompt), Message("user", HelloPrompt)>> }

---------------------------------------------------------------------------
(* LoadBalancer: the provider health tracker *)

\* Variant of PruneFailures: nothing is pruned.
PruneFailures_Never(timestamps, t) == timestamps

\* _prune_failures: popleft while the oldest timestamp is out of the window.
RECURSIVE PruneFailures(_, _)
PruneFailures(timestamps, t) ==
    IF timestamps # <<>> /\ t - Head(timestamps) > FAILURE_WINDOW_SECONDS
    THEN PruneFailures(Tail(timestamps), t)
    ELSE timestamps

\* record_failure: _failures after the call.
RecordFailureFailures(f, p, t) ==
    [f EXCEPT ![p] = Append(PruneFailures(f[p], t), t)]

\* Variant of ThresholdExceeded: the breaker opens at the threshold.
ThresholdExceeded_AtThreshold(count) == count >= FAILURE_THRESHOLD

\* record_failure: whether the count in the window opens the breaker.
ThresholdExceeded(count) == count > FAILURE_THRESHOLD

\* record_failure: _cooldown_until after the call.
RecordFailureCooldown(f, cd, p, t) ==
    IF ThresholdExceeded(Len(RecordFailureFailures(f, p, t)[p]))
    THEN [q \in DOMAIN cd \cup {p} |->
             IF q = p THEN t + COOLDOWN_PERIOD_SECONDS ELSE cd[q]]
    ELSE cd

\* Variant of RecordSuccessFailures: the failure timestamps are kept.
RecordSuccessFailures_Keep(f, p) == f

\* record_success: _failures and _cooldown_until after the call.
RecordSuccessFailures(f, p) == [f EXCEPT ![p] = <<>>]

\* Variant of RecordSuccessCooldown: a success closes every breaker.
RecordSuccessCooldown_ClearAll(cd, p) == [q \in {} |-> 0]

\* Variant of RecordSuccessCooldown: the cooldown is kept.
RecordSuccessCooldown_Keep(cd, p) == cd

RecordSuccessCooldown(cd, p) == [q \in DOMAIN cd \ {p} |-> cd[q]]

\* Variant of IsProviderHealthy: the cooldown lasts one instant longer.
IsProviderHealthy_Inclusive(cd, p, t) == ~(p \in DOMAIN cd /\ t <= cd[p])

\* is_provider_healthy: the value returned.
IsProviderHealthy(cd, p, t) == ~(p \in DOMAIN cd /\ t < cd[p])

\* Variant of HealthCheckCooldown: the query deletes the cooldown it finds,
\* expired or not.
HealthCheckCooldown_DeleteAlways(cd, p, t) == [q \in DOMAIN cd \ {p} |-> cd[q]]

\* is_provider_healthy: _cooldown_until after the call (an expired cooldown
\* is deleted by the query).
HealthCheckCooldown(cd, p, t) ==
    IF p \in DOMAIN cd /\ ~(t < cd[p])
    THEN [q \in DOMAIN cd \ {p} |-> cd[q]]
    ELSE cd

\* Variant of HealthChecksCooldown: a query deletes the cooldown it finds,
\* expired or not.
HealthChecksCooldown_DeleteAlways(cd, ps, t) ==
    [q \in DOMAIN cd \ ps |-> cd[q]]

\* Variant of HealthCheckFailures: closing an expired breaker clears the
\* provider's failure timestamps.
HealthCheckFailures_ClearOnClose(f, cd, p, t) ==
    IF p \in DOMAIN cd /\ ~(t < cd[p]) THEN [f EXCEPT ![p] = <<>>] ELSE f

\* is_provider_healthy: _failures after the call (the failures are not
\* cleared when an expired cooldown is deleted).
HealthCheckFailures(f, cd, p, t) == f

\* _cooldown_until after is_provider_healthy was called for every provider of ps.
HealthChecksCooldown(cd, ps, t) ==
    [q \in {x \in DOMAIN cd : ~(x \in ps /\ ~(t < cd[x]))} |-> cd[q]]

---------------------------------------------------------------------------
(* ModelRegistry *)

\* list_models(tier=...): the models of that tier, in insertion order.
ListModelsByTier(reg, tier) ==
    SelectSeqBy(reg, {m \in Range(reg) : m.tier = tier})

\* list_models(domain=...): the models tagged with that domain, compared
\* without regard to case; a model without a domain never matches.
ListModelsByDomain(reg, domain) ==
    SelectSeqBy(reg, {m \in Range(reg) :
                        m.domain # NoDomain /\ Lower(m.domain) = Lower(domain)})

\* Variant of RegisterModel: a registered id keeps its first definition.
RegisterModel_KeepFirst(reg, model) ==
    IF \E i \in 1..Len(reg) : reg[i].id = model.id THEN reg ELSE Append(reg, model)

\* Variant of RegisterModel: the registry is replaced by the new entry.
RegisterModel_Replace(reg, model) == <<model>>

\* Variant of RegisterModel: a re-registered id moves to the end.
RegisterModel_MoveToEnd(reg, model) ==
    Append(SelectSeqBy(reg, {m \in Range(reg) : m.id # model.id}), model)

\* register_model: self._models[model.id] = model. A dict keeps a key that
\* is assigned again at its place and puts a new key last.
RegisterModel(reg, model) ==
    IF \E i \in 1..Len(reg) : reg[i].id = model.id
    THEN [i \in 1..Len(reg) |-> IF reg[i].id = model.id THEN model ELSE reg[i]]
    ELSE Append(reg, model)

\* get_model: self._models.get(model_id), NoModel standing for None.
GetModel(reg, model_id) ==
    IF \E m \in Range(reg) : m.id = model_id
    THEN CHOOSE m \in Range(reg) : m.id = model_id
    ELSE NoModel

\* list_models: the filter applied to the copy taken under the lock.
ListModels(all_models, tier) ==
    IF tier # "None" THEN ListModelsByTier(all_models, tier) ELSE all_models

---------------------------------------------------------------------------
(* Gatekeeper *)

COMPLEXITY_KEYWORDS == {"analyze", "critique", "reason"}

\* Variant of DOMAIN_MAPPINGS: the medical rule comes first.
DOMAIN_MAPPINGS_MedicalFirst ==
    << [domain |-> "medical",
        keywords |-> {<<"clinical">>, <<"dose">>}],
       [domain |-> "safety_critical",
        keywords |-> {<<"hazard">>, <<"emergency">>, <<"danger">>, <<"immediate">>,
                      <<"adverse", "event">>}] >>

\* DOMAIN_MAPPINGS, in the order the rules are scanned; a keyword is the
\* sequence of its words.
DOMAIN_MAPPINGS ==
    << [domain |-> "safety_critical",
        keywords |-> {<<"hazard">>, <<"emergency">>, <<"danger">>, <<"immediate">>,
                      <<"adverse", "event">>}],
       [domain |-> "medical",
        keywords |-> {<<"clinical">>, <<"dose">>}] >>

\* pattern.search(text) for \b(k1|k2|...)\b, ignoring case: some keyword's
\* words occur as consecutive whole words of the text.
MatchesAny(words, keywords) ==
    \E k \in keywords :
        \E i \in 1..Len(words) :
            /\ i + Len(k) - 1 <= Len(words)
            /\ \A j \in 1..Len(k) : Lower(words[i + j - 1]) = k[j]

RoutingContext(complexity, domain) == [complexity |-> complexity, domain |-> domain]

\* classify: the first domain rule that matches, or None.
DetectedDomain(words) ==
    LET hits == {i \in 1..Len(DOMAIN_MAPPINGS) :
                    MatchesAny(words, DOMAIN_MAPPINGS[i].keywords)}
    IN IF hits = {} THEN NoDomain
       ELSE DOMAIN_MAPPINGS[CHOOSE i \in hits : \A j \in hits : i <= j].domain

\* Variant of Classify: a complexity keyword in a short prompt gives a
\* complexity of 0.5.
Classify_Graded(text) ==
    LET is_long == text.chars > COMPLEXITY_THRESHOLD_LENGTH
        has_complexity_keywords ==
            MatchesAny(text.words, {<<k>> : k \in COMPLEXITY_KEYWORDS})
    IN RoutingContext(IF is_long THEN 9000
                      ELSE IF has_complexity_keywords THEN 5000 ELSE 1000,
                      DetectedDomain(text.words))

\* Gatekeeper.classify
Classify(text) ==
    LET is_long == text.chars > COMPLEXITY_THRESHOLD_LENGTH
        has_complexity_keywords ==
            MatchesAny(text.words, {<<k>> : k \in COMPLEXITY_KEYWORDS})
    IN RoutingContext(IF is_long \/ has_complexity_keywords THEN 9000 ELSE 1000,
                      DetectedDomain(text.words))

\* A direct call of Gatekeeper.classify: its argument and what it returned.
ClassifyCall(text, context) == [text |-> text, context |-> context]

NoClassifyCall == ClassifyCall(EmptyPrompt, RoutingContext(0, NoDomain))

---------------------------------------------------------------------------
(* Router *)

\* What get_remaining_budget_percentage did: raised, or returned value.
BudgetAnswer(raised, value) == [raised |-> raised, value |-> value]

\* Variant of BaselineTier: the domain is compared with its letter case.
BaselineTier_CaseSensitive(context) ==
    IF context.complexity >= 8000 \/ context.domain = "safety_critical"
    THEN TIER_3_REASONING
    ELSE IF context.complexity >= 4000 THEN TIER_2_SMART
    ELSE TIER_1_FAST

\* Variant of BaselineTier: the REASONING threshold is exclusive.
BaselineTier_Exclusive(context) ==
    IF context.complexity > 8000 \/ Lower(context.domain) = "safety_critical"
    THEN TIER_3_REASONING
    ELSE IF context.complexity >= 4000 THEN TIER_2_SMART
    ELSE TIER_1_FAST

\* route, step 1: the baseline tier.
BaselineTier(context) ==
    LET domain_lower == IF context.domain # NoDomain THEN Lower(context.domain) ELSE ""
    IN IF context.complexity >= 8000 \/ domain_lower = "safety_critical"
       THEN TIER_3_REASONING
       ELSE IF context.complexity >= 4000 THEN TIER_2_SMART
       ELSE TIER_1_FAST

\* Variant of EconomyTier: a fraction of exactly 0.10 downgrades too.
EconomyTier_Inclusive(target_tier, budget) ==
    IF ~budget.raised /\ budget.value <= 1000 /\ target_tier = TIER_2_SMART
    THEN TIER_1_FAST
    ELSE target_tier

\* Variant of EconomyTier: a failed budget query counts as an empty budget.
EconomyTier_FailClosed(target_tier, budget) ==
    IF (budget.raised \/ budget.value < 1000) /\ target_tier = TIER_2_SMART
    THEN TIER_1_FAST
    ELSE target_tier

\* route, step 2: the economy-mode check.
EconomyTier(target_tier, budget) ==
    IF ~budget.raised /\ budget.value < 1000 /\ target_tier = TIER_2_SMART
    THEN TIER_1_FAST
    ELSE target_tier

TargetTier(context, budget) == EconomyTier(BaselineTier(context), budget)

\* Variant of StaticFilter: the exclusion set is ignored.
StaticFilter_IgnoreExclusion(candidates, excluded_providers) ==
    SelectSeqBy(candidates, {m \in Range(candidates) : m.is_healthy})

\* route: the static-health and exclusion filters.
StaticFilter(candidates, excluded_providers) ==
    SelectSeqBy(candidates, {m \in Range(candidates) :
                               m.is_healthy /\ m.provider \notin excluded_providers})

\* Variant of DynamicFilter: the LoadBalancer is not asked.
DynamicFilter_None(candidates, cd, t) == candidates

\* route: the LoadBalancer filter.
DynamicFilter(candidates, cd, t) ==
    SelectSeqBy(candidates, {m \in Range(candidates) :
                               IsProviderHealthy(cd, m.provider, t)})

\* route, step 3: the healthy candidates of the context's domain.
DomainCandidates(reg, context, excluded_providers, cd, t) ==
    IF context.domain = NoDomain THEN <<>>
    ELSE DynamicFilter(
             StaticFilter(ListModelsByDomain(reg, context.domain), excluded_providers),
             cd, t)

\* Variant of GenericCandidates: models of every tier are candidates.
GenericCandidates_AnyTier(reg, target_tier, excluded_providers, cd, t) ==
    DynamicFilter(StaticFilter(reg, excluded_providers), cd, t)

\* route, step 4: the healthy candidates of the target tier.
GenericCandidates(reg, target_tier, excluded_providers, cd, t) ==
    DynamicFilter(StaticFilter(ListModelsByTier(reg, target_tier), excluded_providers),
                  cd, t)

\* Variant of Route: a domain model is returned only at the target tier.
Route_NoSoftFallback(reg, context, excluded_providers, budget, cd, t) ==
    LET target_tier == TargetTier(context, budget)
        healthy_domain_candidates ==
            DomainCandidates(reg, context, excluded_providers, cd, t)
        tier_matches ==
            SelectSeqBy(healthy_domain_candidates,
                        {m \in Range(healthy_domain_candidates) : m.tier = target_tier})
        healthy_candidates ==
            GenericCandidates(reg, target_tier, excluded_providers, cd, t)
    IN IF tier_matches # <<>> THEN tier_matches[1]
       ELSE IF healthy_candidates # <<>> THEN healthy_candidates[1]
       ELSE NoModel

\* Router.route: the model returned, or NoModel when it raises RuntimeError.
Route(reg, context, excluded_providers, budget, cd, t) ==
    LET target_tier == TargetTier(context, budget)
        healthy_domain_candidates ==
            DomainCandidates(reg, context, excluded_providers, cd, t)
        tier_matches ==
            SelectSeqBy(healthy_domain_candidates,
                        {m \in Range(healthy_domain_candidates) : m.tier = target_tier})
        healthy_candidates ==
            GenericCandidates(reg, target_tier, excluded_providers, cd, t)
    IN IF healthy_domain_candidates # <<>>
       THEN IF tier_matches # <<>> THEN tier_matches[1]
            ELSE healthy_domain_candidates[1]
       ELSE IF healthy_candidates # <<>> THEN healthy_candidates[1]
       ELSE NoModel

\* Router.route: the tier named in the message of the RuntimeError it raises,
\* or "None" when it returns a model.
RouteError(reg, context, excluded_providers, budget, cd, t) ==
    IF Route(reg, context, excluded_providers, budget, cd, t) = NoModel
    THEN TargetTier(context, budget)
    ELSE "None"

\* Router.route: the providers it asked the LoadBalancer about.
RouteHealthChecked(reg, context, excluded_providers, budget, cd, t) ==
    LET target_tier == TargetTier(context, budget)
        domain_checked ==
            IF context.domain = NoDomain THEN {}
            ELSE {m.provider : m \in Range(StaticFilter(
                      ListModelsByDomain(reg, context.domain), excluded_providers))}
        generic_checked ==
            IF DomainCandidates(reg, context, excluded_providers, cd, t) # <<>> THEN {}
            ELSE {m.provider : m \in Range(StaticFilter(
                      ListModelsByTier(reg, target_tier), excluded_providers))}
    IN domain_checked \cup generic_checked

\* Router.route: _cooldown_until after the call.
RouteCooldown(reg, context, excluded_providers, budget, cd, t) ==
    HealthChecksCooldown(
        cd, RouteHealthChecked(reg, context, excluded_providers, budget, cd, t), t)

---------------------------------------------------------------------------
(* CompletionsWrapper.create: values *)

Requests == DOMAIN pc

\* An exception object: its type, its message, the call that raised it and
\* the loop attempt (0 outside the loop) in which it was raised.
Err(type, msg, src, at) == [type |-> type, msg |-> msg, src |-> src, at |-> at]

NoError == Err("None", "", "none", 0)

BudgetExceededError == Err("PermissionError", "Budget exceeded.", "create", 0)
BudgetCheckFailedError == Err("PermissionError", "Budget check failed.", "create", 0)

\* What create() did: returned a response, or raised error with __cause__ cause.
Returned(response) ==
    [kind |-> "return", response |-> response, error |-> NoError, cause |-> NoError]
Raised(error, cause) ==
    [kind |-> "raise", response |-> "None", error |-> error, cause |-> cause]
Pending == [kind |-> "pending", response |-> "None", error |-> NoError, cause |-> NoError]

\* A response of the invoker: the model that answered and its usage, which is
\* "missing" or the pair of token counts.
Usage(prompt_tokens, completion_tokens) ==
    [missing |-> FALSE, prompt_tokens |-> prompt_tokens,
     completion_tokens |-> completion_tokens]
MissingUsage == [missing |-> TRUE, prompt_tokens |-> 0, completion_tokens |-> 0]
Usages == {MissingUsage, Usage(1000, 500)}

\* One call made by create(), as recorded in trace.
\* op is the operation called, attempt the loop attempt (0 outside the loop),
\* phase the phase of create(), res what the call returned or raised; env is
\* the fallback setting read for a fail-open invoke.
Event(op, at, phase, model, provider, excluded, cost, env, res) ==
    [op |-> op, attempt |-> at, phase |-> phase, model |-> model,
     provider |-> provider, excluded |-> excluded, cost |-> cost, env |-> env,
     res |-> res]

CallEvent(op, at, res) ==
    Event(op, at, "admission", "None", "None", {}, 0, "None", res)
RouteEvent(at, excluded, res) ==
    Event("route", at, "loop", res, "None", excluded, 0, "None", res)
InvokeEvent(at, phase, m, env, res) ==
    Event("invoke", at, phase, m.id, m.provider, {}, 0, env, res)
HealthEvent(op, at, provider) ==
    Event(op, at, "loop", "None", provider, {}, 0, "None", "ok")
AccountEvent(op, at, phase, m, cost, res) ==
    Event(op, at, phase, m.id, m.provider, {}, cost, "None", res)

\* What the collaborators may do.
CheckAllowanceOutcomes == {"True", "False", "PermissionError", "ConnectionError"}
BudgetAnswers ==
    {BudgetAnswer(TRUE, 0), BudgetAnswer(FALSE, 999), BudgetAnswer(FALSE, 1000),
     BudgetAnswer(FALSE, 5000)}
InvokerErrors == RETRIABLE_ERRORS \cup {"BadRequestError", "RuntimeError", "Timeout"}

\* What ends the invoker call when the request is cancelled while the call is
\* in progress: an exception that is not an Exception.
Interruptions == {"CancelledError"}
FailOpenErrors == {"APIConnectionError", "BadRequestError"}
FallbackSettings == {"unset", "custom/fallback"}

\* create(): the content of the last message whose role is user, else "".
RECURSIVE LastUserPrompt(_)
LastUserPrompt(msgs) ==
    IF msgs = <<>> THEN EmptyPrompt
    ELSE IF msgs[Len(msgs)].role = "user" THEN msgs[Len(msgs)].content
    ELSE LastUserPrompt(SubSeq(msgs, 1, Len(msgs) - 1))

\* Variant of Cost: the output tokens are priced as input tokens.
Cost_InputPriceOnly(m, usage) ==
    (usage.prompt_tokens + usage.completion_tokens) * m.cost_per_1k_input

\* create(): cost = input_tokens / 1000 * cost_per_1k_input
\*                + output_tokens / 1000 * cost_per_1k_output
Cost(m, usage) ==
    usage.prompt_tokens * m.cost_per_1k_input
    + usage.completion_tokens * m.cost_per_1k_output

\* Variants of IsRetriable: every error counts; connection errors do not.
IsRetriable_AnyError(type) == TRUE
IsRetriable_NoConnection(type) == type \in RETRIABLE_ERRORS \ {"APIConnectionError"}

\* Variant of HandledByLoop: the loop catches every exception.
HandledByLoop_CatchAll(type) == TRUE

\* except RuntimeError / except Exception in the retry loop: what is not an
\* Exception passes through.
HandledByLoop(type) == type \notin Interruptions

\* isinstance(e, RETRIABLE_ERRORS)
IsRetriable(type) == type \in RETRIABLE_ERRORS

\* Variant of Accounting: an error of log_transaction skips deduct_funds.
Accounting_AuditAborts(at, phase, m, usage, audit, budget, audit_raises, deduct_raises) ==
    IF usage.missing THEN <<>>
    ELSE (IF audit # "None"
          THEN <<AccountEvent("log_transaction", at, phase, m, Cost(m, usage),
                              IF audit_raises THEN "raise" ELSE "ok")>>
          ELSE <<>>)
         \o
         (IF budget # "None" /\ ~(audit # "None" /\ audit_raises)
          THEN <<AccountEvent("deduct_funds", at, phase, m, Cost(m, usage),
                              IF deduct_raises THEN "raise" ELSE "ok")>>
          ELSE <<>>)

\* create(), step 5: the accounting calls made for a response, in order.
\* audit_raises and deduct_raises say what the two clients do when called.
Accounting(at, phase, m, usage, audit, budget, audit_raises, deduct_raises) ==
    IF usage.missing THEN <<>>
    ELSE (IF audit # "None"
          THEN <<AccountEvent("log_transaction", at, phase, m, Cost(m, usage),
                              IF audit_raises THEN "raise" ELSE "ok")>>
          ELSE <<>>)
         \o
         (IF budget # "None"
          THEN <<AccountEvent("deduct_funds", at, phase, m, Cost(m, usage),
                              IF deduct_raises THEN "raise" ELSE "ok")>>
          ELSE <<>>)

\* Variant of Admitted: a denial is ignored.
Admitted_IgnoreDenial(budget, allowance) ==
    budget = "None" \/ allowance \in {"True", "False"}

\* create(), step 0: whether the request passes the budget check; allowance is
\* what check_allowance did.
Admitted(budget, allowance) == budget = "None" \/ allowance = "True"

\* create(), step 0: what a request that is not admitted raises.
AdmissionError(allowance) ==
    CASE allowance = "False" -> Raised(BudgetExceededError, NoError)
      [] allowance = "PermissionError" ->
           Raised(Err("PermissionError", "", "check_allowance", 0), NoError)
      [] OTHER ->
           Raised(BudgetCheckFailedError, Err(allowance, "", "check_allowance", 0))

\* Variant of FailOpenRaise: the fail-open error is always the one raised.
FailOpenRaise_FailOpenError(last, e) == Raised(e, NoError)

\* create(): what is raised when the fail-open completion() raised e.
FailOpenRaise(last, e) ==
    IF last # NoError THEN Raised(last, e) ELSE Raised(e, NoError)

\* Variant of AddFailedProvider: the exclusion set is kept on the client and
\* shared by the requests that run on it.
AddFailedProvider_Shared(failed, r, provider) ==
    [q \in DOMAIN failed |-> failed[q] \cup {provider}]

\* Variant of AddFailedProvider: the provider is not excluded.
AddFailedProvider_Never(failed, r, provider) == failed

\* create(): failed_providers.add(model_def.provider), on the set that is a
\* local of the call.
AddFailedProvider(failed, r, provider) ==
    [failed EXCEPT ![r] = @ \cup {provider}]

\* The request is cancelled during an invoker call of the retry loop: the
\* exception leaves create() through both except clauses.
InvokeInterrupted(r) ==
    /\ pc[r] = "invoke"
    /\ \E type \in Interruptions :
        /\ ~HandledByLoop(type)
        /\ LET m == model_def[r]
               at == attempt[r] + 1
           IN /\ trace' = [trace EXCEPT ![r] =
                     Append(@, InvokeEvent(at, "loop", m, "None", type))]
              /\ result' = [result EXCEPT ![r] =
                     Raised(Err(type, "", "invoker", at), NoError)]
              /\ pc' = [pc EXCEPT ![r] = "done"]
    /\ UNCHANGED <<trackerVars, routerVars, registryVars, gatekeeperVars, singletonVars, engineVars, now, healthVars,
                   messages, attempt, routing_context, failed_providers,
                   last_exception, model_def>>

\* Variants of NextAttemptPc: the loop gives up after one attempt; the loop
\* never gives up.
NextAttemptPc_GiveUpEarly(at, retries) == "fail_open"
NextAttemptPc_Forever(at, retries) == "route"

\* create(): where the loop goes after attempt at did not return.
NextAttemptPc(at, retries) == IF at + 1 < retries THEN "route" ELSE "fail_open"

---------------------------------------------------------------------------
(* LoadBalancer: calls made by threads *)

\* The most calls the threads begin on the LoadBalancer.
MaxCalls == 3

Threads == {"T1", "T2", "T3", "T4"}
TwoThreads == {"T1", "T2"}
ThreadOrder == [t \in Threads |-> CHOOSE i \in 1..4 : t = <<"T1", "T2", "T3", "T4">>[i]]

Operations == {"record_failure", "record_success", "is_provider_healthy"}

\* The instants at which the clock is read: the start, the last instant of
\* the failure window of a failure at 0 and the first after it, and the last
\* instant of a cooldown that began at 0 and the first after it.
Instants ==
    {0,
     FAILURE_WINDOW_SECONDS, FAILURE_WINDOW_SECONDS + 1,
     COOLDOWN_PERIOD_SECONDS - 1, COOLDOWN_PERIOD_SECONDS}

\* A thread: where it is in its call, the call's operation and provider, the
\* locals now and count of record_failure / is_provider_healthy, and the value
\* is_provider_healthy returns.
ThreadState(at, op, provider, t, count, value) ==
    [pc |-> at, op |-> op, provider |-> provider, now |-> t, count |-> count,
     value |-> value]

IdleThread == ThreadState("idle", "None", "None", 0, 0, "None")

\* The tracker's two dictionaries as one value.
Tracker(f, cd) == [failures |-> f, cooldown_until |-> cd]

\* Variant of LockFree: the lock is never waited for.
LockFree_NoLock(l) == TRUE

\* with self._lock: the lock can be taken.
LockFree(l) == l = "None"

\* The first statement of an operation's critical section.
FirstStep(op) ==
    CASE op = "record_failure" -> "prune"
      [] op = "record_success" -> "clear_failures"
      [] OTHER -> "check"

\* The tracker after the whole operation ran alone at instant t.
Sequentially(s, op, p, t) ==
    CASE op = "record_failure" ->
           Tracker(RecordFailureFailures(s.failures, p, t),
                   RecordFailureCooldown(s.failures, s.cooldown_until, p, t))
      [] op = "record_success" ->
           Tracker(RecordSuccessFailures(s.failures, p),
                   RecordSuccessCooldown(s.cooldown_until, p))
      [] OTHER ->
           Tracker(HealthCheckFailures(s.failures, s.cooldown_until, p, t),
                   HealthCheckCooldown(s.cooldown_until, p, t))

\* The calls that took the lock so far, per provider and in that order: the
\* instant of a record_failure, Success for a record_success.
Success == 0 - 1

Logged(h, op, p, t) ==
    CASE op = "record_failure" -> [h EXCEPT ![p] = Append(@, t)]
      [] op = "record_success" -> [h EXCEPT ![p] = Append(@, Success)]
      [] OTHER -> h

\* n record_failure(p) calls at instant 0 and nothing else.
EarlierCalls(p, n) == [q \in Providers |-> IF q = p THEN [i \in 1..n |-> 0] ELSE <<>>]

\* No thread is calling the LoadBalancer.
InitTrackerIdle ==
    /\ lock = "None"
    /\ thread = [t \in Threads |-> IdleThread]
    /\ ncalls = 0

\* Variant of WriteBase: the write is applied to the content found when the
\* call began.
WriteBase_Stale(current, at_call) == at_call

\* register_model writes into the shared dict in place.
WriteBase(current, at_call) == current

\* A call on the ModelRegistry or on ArbitrageEngine.configure by a thread:
\* where it is, the operation, the models still to register, the id and tier
\* arguments, the foundry snapshot, the registry found when the call began,
\* the copy list_models took, the registry contents that existed during the
\* call, and the value returned.
RegistryCall(at, op, todo, id, tier, snapshot, base, all_models, window, value) ==
    [at |-> at, op |-> op, todo |-> todo, id |-> id, tier |-> tier,
     snapshot |-> snapshot, base |-> base, all_models |-> all_models,
     window |-> window, value |-> value]

IdleRegistryCall ==
    RegistryCall("idle", "None", <<>>, "None", "None", <<>>, <<>>, <<>>, {}, <<>>)

\* No thread is calling the registry; nothing was registered.
InitRegistryIdle ==
    /\ reg_lock = "None"
    /\ reg_thread = [t \in Threads |-> IdleRegistryCall]
    /\ reg_calls = 0
    /\ inserted = <<>>
    /\ latest = [i \in {} |-> NoModel]

\* A direct call of Router.route: its arguments, what the budget client
\* answered, the tracker it found, its local target_tier after step 1 and
\* after step 2, and the model it returned (NoModel when it raised).
RouteCall(context, excluded, budget, cd, t, baseline, target_tier, model, error) ==
    [context |-> context, excluded |-> excluded, budget |-> budget,
     cooldown_until |-> cd, now |-> t, baseline |-> baseline,
     target_tier |-> target_tier, model |-> model, error |-> error]

NoRouteCall ==
    RouteCall(RoutingContext(0, NoDomain), {}, BudgetAnswer(FALSE, 0),
              [p \in {} |-> 0], 0, "None", "None", NoModel, "None")

\* The routing contexts, exclusion lists and budget answers of direct calls.
Complexities == {0, 3999, 4000, 5000, 7999, 8000, 10000}
Domains == {NoDomain, "medical", "Medical", "safety_critical", "Safety_Critical", "legal"}
ExclusionSets == SUBSET Providers
RouterBudgetAnswers ==
    {BudgetAnswer(TRUE, 0), BudgetAnswer(FALSE, 0), BudgetAnswer(FALSE, 500),
     BudgetAnswer(FALSE, 999),
     BudgetAnswer(FALSE, 1000), BudgetAnswer(FALSE, 10000)}

\* The registries of direct calls, each in insertion order.
ModelS == ModelDefinition("s", "P1", TIER_2_SMART, 20, 40, TRUE, NoDomain)
ModelS2 == ModelDefinition("s2", "P2", TIER_2_SMART, 25, 45, TRUE, NoDomain)
ModelMF == ModelDefinition("medical-fast", "P2", TIER_1_FAST, 5, 7, TRUE, "medical")
ModelSC == ModelDefinition("safety-fast", "P1", TIER_1_FAST, 5, 7, TRUE, "safety_critical")

RouterRegistries ==
    { <<ModelS>>,
      <<ModelA, ModelS, ModelG>>,
      <<ModelU, ModelA, ModelB, ModelS, ModelS2, ModelG>>,
      <<ModelMF, ModelM, ModelA, ModelS2, ModelG>>,
      <<ModelSC, ModelA, ModelG>> }

\* ArbitrageEngine as a class: _lock ("None" or the thread holding it),
\* _instance (0 for None, else the number of the object), whether the
\* instance has the attribute _initialized and its value, the objects that
\* super().__new__ made, the LoadBalancer and ModelRegistry objects made, and
\* the ones the instance holds (0 for none).
EngineClass(lk, instance, has_initialized, initialized, instances, load_balancers, load_balancer, registries, reg) ==
    [lock |-> lk, instance |-> instance, has_initialized |-> has_initialized,
     initialized |-> initialized, instances |-> instances,
     load_balancers |-> load_balancers, load_balancer |-> load_balancer,
     registries |-> registries, registry |-> reg]

\* The class before the first construction, and after a construction that
\* ran alone.
FreshEngineClass == EngineClass("None", 0, FALSE, FALSE, 0, 0, 0, 0, 0)
BuiltEngineClass == EngineClass("None", 1, TRUE, TRUE, 1, 1, 1, 1, 1)

\* A thread's call: where it is, the operation, the instance __new__ gave it
\* and the instance its last call returned (0 for none) or the error it
\* raised.
Constructor(at, op, self, returned, raised) ==
    [pc |-> at, op |-> op, self |-> self, returned |-> returned, raised |-> raised]

IdleConstructor == Constructor("idle", "None", 0, 0, "None")

InitEngineBuilt ==
    /\ engine_cls = BuiltEngineClass
    /\ construct = [t \in Threads |-> IdleConstructor]
    /\ engine_calls = 0

---------------------------------------------------------------------------
(* The state machine *)

\* _failures / _cooldown_until after n record_failure(p) calls at time 0.
RECURSIVE FailuresAfter(_, _, _)
FailuresAfter(f, p, n) ==
    IF n = 0 THEN f ELSE RecordFailureFailures(FailuresAfter(f, p, n - 1), p, 0)

RECURSIVE CooldownAfter(_, _, _, _)
CooldownAfter(f, cd, p, n) ==
    IF n = 0 THEN cd
    ELSE RecordFailureCooldown(FailuresAfter(f, p, n - 1),
                               CooldownAfter(f, cd, p, n - 1), p, 0)

NoFailures == [p \in Providers |-> <<>>]
NoCooldown == [p \in {} |-> 0]

\* The engine after __init__ (no clients), after configure() followed by
\* get_client(), or after get_client() followed by configure().
EngineConfigurations ==
    { [budget |-> "None", audit |-> "None", router_budget |-> "None"],
      [budget |-> "budget", audit |-> "audit", router_budget |-> "budget"],
      [budget |-> "budget", audit |-> "audit", router_budget |-> "None"] }

InitEngine ==
    /\ registry \in Registries
    /\ \E c \in EngineConfigurations :
          /\ budget_client = c.budget
          /\ audit_client = c.audit
          /\ router_budget_client = c.router_budget
    /\ max_retries \in {0, MAX_RETRIES}

\* The numbers of failures (of P1, of P2) that earlier requests recorded.
EarlierFailures ==
    { <<0, 0>>, <<FAILURE_THRESHOLD, 0>>, <<FAILURE_THRESHOLD + 1, 0>>,
      <<FAILURE_THRESHOLD + 1, FAILURE_THRESHOLD + 1>> }

\* The health tracker as earlier requests left it: n1 failures of P1 and n2
\* of P2, all recorded at time 0.
InitHealth ==
    /\ now = 0
    /\ \E n \in EarlierFailures : LET n1 == n[1]  n2 == n[2] IN
          /\ failures = FailuresAfter(FailuresAfter(NoFailures, "P1", n1), "P2", n2)
          /\ cooldown_until =
                CooldownAfter(FailuresAfter(NoFailures, "P1", n1),
                              CooldownAfter(NoFailures, NoCooldown, "P1", n1), "P2", n2)

InitRequests(rs) ==
    /\ messages = [r \in rs |-> <<>>]
    /\ pc = [r \in rs |-> "admission"]
    /\ attempt = [r \in rs |-> 0]
    /\ routing_context = [r \in rs |-> RoutingContext(0, NoDomain)]
    /\ failed_providers = [r \in rs |-> {}]
    /\ last_exception = [r \in rs |-> NoError]
    /\ model_def = [r \in rs |-> NoModel]
    /\ result = [r \in rs |-> Pending]
    /\ trace = [r \in rs |-> <<>>]

Init ==
    /\ InitEngine /\ InitHealth /\ InitRequests({"R1"})
    /\ InitTrackerIdle /\ sequential = Tracker(NoFailures, NoCooldown)
    /\ history = EarlierCalls("P1", 0)
    /\ route_call = NoRouteCall
    /\ InitRegistryIdle
    /\ classify_call = NoClassifyCall
    /\ InitEngineBuilt

\* create(), steps 0 to 2: the call with its messages, the budget check, the
\* classification of the prompt and the entry into the retry loop.
Admit(r) ==
    /\ pc[r] = "admission"
    /\ \E msgs \in MessageLists, allowance \in CheckAllowanceOutcomes :
        LET checked == budget_client # "None"
            check == IF checked THEN <<CallEvent("check_allowance", 0, allowance)>>
                     ELSE <<>>
            admitted == Admitted(budget_client, allowance)
            context == Classify(LastUserPrompt(msgs))
        IN /\ messages' = [messages EXCEPT ![r] = msgs]
           /\ IF admitted
              THEN /\ routing_context' = [routing_context EXCEPT ![r] = context]
                   /\ trace' = [trace EXCEPT ![r] =
                                   check \o <<CallEvent("classify", 0, "ok")>>]
                   /\ pc' = [pc EXCEPT ![r] =
                                IF 0 < max_retries THEN "route" ELSE "fail_open"]
                   /\ UNCHANGED result
              ELSE /\ trace' = [trace EXCEPT ![r] = check]
                   /\ pc' = [pc EXCEPT ![r] = "done"]
                   /\ result' = [result EXCEPT ![r] = AdmissionError(allowance)]
                   /\ UNCHANGED routing_context
    /\ UNCHANGED <<trackerVars, routerVars, registryVars, gatekeeperVars, singletonVars, engineVars, now, healthVars, attempt, failed_providers,
                   last_exception, model_def>>

\* create(), step 3: one call of router.route inside the loop.
RouteAttempt(r) ==
    /\ pc[r] = "route"
    /\ \E answer \in BudgetAnswers :
        LET budget == IF router_budget_client = "None" THEN BudgetAnswer(TRUE, 0)
                      ELSE answer
            m == Route(registry, routing_context[r], failed_providers[r], budget,
                       cooldown_until, now)
            at == attempt[r] + 1
        IN /\ cooldown_until' =
                  RouteCooldown(registry, routing_context[r], failed_providers[r],
                                budget, cooldown_until, now)
           /\ trace' = [trace EXCEPT ![r] =
                           Append(@, RouteEvent(at, failed_providers[r], m.id))]
           /\ IF m = NoModel
              THEN /\ last_exception' = [last_exception EXCEPT ![r] =
                          Err("RuntimeError", "No healthy models available", "router", at)]
                   /\ attempt' = [attempt EXCEPT ![r] = @ + 1]
                   /\ pc' = [pc EXCEPT ![r] = NextAttemptPc(attempt[r], max_retries)]
                   /\ UNCHANGED model_def
              ELSE /\ model_def' = [model_def EXCEPT ![r] = m]
                   /\ pc' = [pc EXCEPT ![r] = "invoke"]
                   /\ UNCHANGED <<last_exception, attempt>>
    /\ UNCHANGED <<trackerVars, routerVars, registryVars, gatekeeperVars, singletonVars, engineVars, now, failures, messages, routing_context,
                   failed_providers, result>>

\* create(), steps 4 and 5: completion() returned inside the loop.
InvokeSuccess(r) ==
    /\ pc[r] = "invoke"
    /\ \E usage \in Usages, audit_raises \in BOOLEAN, deduct_raises \in BOOLEAN :
        LET m == model_def[r]
            at == attempt[r] + 1
        IN /\ failures' = RecordSuccessFailures(failures, m.provider)
           /\ cooldown_until' = RecordSuccessCooldown(cooldown_until, m.provider)
           /\ trace' = [trace EXCEPT ![r] =
                  @ \o <<InvokeEvent(at, "loop", m, "None", "ok"),
                         HealthEvent("record_success", at, m.provider)>>
                    \o Accounting(at, "loop", m, usage, audit_client, budget_client,
                                  audit_raises, deduct_raises)]
           /\ result' = [result EXCEPT ![r] = Returned([model |-> m.id, usage |-> usage])]
           /\ pc' = [pc EXCEPT ![r] = "done"]
    /\ UNCHANGED <<trackerVars, routerVars, registryVars, gatekeeperVars, singletonVars, engineVars, now, messages, attempt, routing_context,
                   failed_providers, last_exception, model_def>>

\* create(): completion() raised inside the loop (the two except clauses).
InvokeFailure(r) ==
    /\ pc[r] = "invoke"
    /\ \E type \in InvokerErrors \cup Interruptions :
        LET m == model_def[r]
            at == attempt[r] + 1
            record == type # "RuntimeError" /\ m # NoModel /\ IsRetriable(type)
        IN /\ HandledByLoop(type)
           /\ last_exception' = [last_exception EXCEPT ![r] = Err(type, "", "invoker", at)]
           /\ failures' = IF record THEN RecordFailureFailures(failures, m.provider, now)
                          ELSE failures
           /\ cooldown_until' =
                  IF record
                  THEN RecordFailureCooldown(failures, cooldown_until, m.provider, now)
                  ELSE cooldown_until
           /\ failed_providers' = IF record
                                   THEN AddFailedProvider(failed_providers, r, m.provider)
                                   ELSE failed_providers
           /\ trace' = [trace EXCEPT ![r] =
                  @ \o <<InvokeEvent(at, "loop", m, "None", type)>>
                    \o IF record THEN <<HealthEvent("record_failure", at, m.provider)>>
                       ELSE <<>>]
           /\ attempt' = [attempt EXCEPT ![r] = @ + 1]
           /\ pc' = [pc EXCEPT ![r] = NextAttemptPc(attempt[r], max_retries)]
    /\ UNCHANGED <<trackerVars, routerVars, registryVars, gatekeeperVars, singletonVars, engineVars, now, messages, routing_context, model_def, result>>

\* create(): the fail-open completion() returned.
FailOpenSuccess(r) ==
    /\ pc[r] = "fail_open"
    /\ \E env \in FallbackSettings, usage \in Usages,
          audit_raises \in BOOLEAN, deduct_raises \in BOOLEAN :
        LET fallback_model == FallbackModel(env)
        IN /\ trace' = [trace EXCEPT ![r] =
                  @ \o <<InvokeEvent(0, "fail_open", fallback_model, env, "ok")>>
                    \o Accounting(0, "fail_open", fallback_model, usage, audit_client,
                                  budget_client, audit_raises, deduct_raises)]
           /\ result' = [result EXCEPT ![r] =
                            Returned([model |-> fallback_model.id, usage |-> usage])]
           /\ pc' = [pc EXCEPT ![r] = "done"]
    /\ UNCHANGED <<trackerVars, routerVars, registryVars, gatekeeperVars, singletonVars, engineVars, now, healthVars, messages, attempt, routing_context,
                   failed_providers, last_exception, model_def>>

\* create(): the fail-open completion() raised.
FailOpenFailure(r) ==
    /\ pc[r] = "fail_open"
    /\ \E env \in FallbackSettings, type \in FailOpenErrors :
        LET fallback_model == FallbackModel(env)
            e == Err(type, "", "fail_open", 0)
        IN /\ trace' = [trace EXCEPT ![r] =
                  Append(@, InvokeEvent(0, "fail_open", fallback_model, env, type))]
           /\ result' = [result EXCEPT ![r] = FailOpenRaise(last_exception[r], e)]
           /\ pc' = [pc EXCEPT ![r] = "done"]
    /\ UNCHANGED <<trackerVars, routerVars, registryVars, gatekeeperVars, singletonVars, engineVars, now, healthVars, messages, attempt, routing_context,
                   failed_providers, last_exception, model_def>>

\* Time passes while a request is in progress.
Tick ==
    /\ \E r \in Requests : pc[r] # "done"
    /\ now + COOLDOWN_PERIOD_SECONDS <= MaxTime
    /\ now' = now + COOLDOWN_PERIOD_SECONDS
    /\ UNCHANGED <<trackerVars, routerVars, registryVars, gatekeeperVars, singletonVars, engineVars, healthVars, requestVars>>

Next ==
    \/ \E r \in Requests : Admit(r)
    \/ \E r \in Requests : RouteAttempt(r)
    \/ \E r \in Requests : InvokeSuccess(r)
    \/ \E r \in Requests : InvokeFailure(r)
    \/ \E r \in Requests : InvokeInterrupted(r)
    \/ \E r \in Requests : FailOpenSuccess(r)
    \/ \E r \in Requests : FailOpenFailure(r)
    \/ Tick

Spec == Init /\ [][Next]_vars

---------------------------------------------------------------------------
(* The LoadBalancer called by concurrent threads.  Each statement of a       *)
(* critical section is one step; the clock may advance between any two.     *)

InitTracker ==
    /\ registry = <<>>
    /\ budget_client = "None" /\ audit_client = "None"
    /\ router_budget_client = "None"
    /\ max_retries = MAX_RETRIES
    /\ now = 0
    /\ \E n \in {0, FAILURE_THRESHOLD} :
          /\ failures = FailuresAfter(NoFailures, "P1", n)
          /\ cooldown_until = CooldownAfter(NoFailures, NoCooldown, "P1", n)
          /\ history = EarlierCalls("P1", n)
    /\ InitRequests({})
    /\ InitTrackerIdle
    /\ sequential = Tracker(failures, cooldown_until)
    /\ route_call = NoRouteCall
    /\ InitRegistryIdle
    /\ classify_call = NoClassifyCall
    /\ InitEngineBuilt

\* A thread calls record_failure, record_success or is_provider_healthy.  The
\* threads are interchangeable: a call is made by the first idle one.
BeginCall(t, limit) ==
    /\ thread[t].pc = "idle"
    /\ \A u \in Threads : thread[u].pc = "idle" => ThreadOrder[t] <= ThreadOrder[u]
    /\ ncalls < limit
    /\ \E op \in Operations, p \in Providers :
          thread' = [thread EXCEPT ![t] = ThreadState("waiting", op, p, 0, 0, "None")]
    /\ ncalls' = ncalls + 1
    /\ UNCHANGED <<lock, sequential, history, now, healthVars, engineVars,
                   requestVars, routerVars, registryVars, gatekeeperVars, singletonVars>>

\* with self._lock, and now = time.time() where the operation reads it.
Acquire(t) ==
    /\ thread[t].pc = "waiting"
    /\ LockFree(lock)
    /\ lock' = t
    /\ LET op == thread[t].op
           p == thread[t].provider
           at == IF op = "record_success" THEN 0 ELSE now
       IN /\ thread' = [thread EXCEPT ![t] = ThreadState(FirstStep(op), op, p, at, 0, "None")]
          /\ sequential' = Sequentially(sequential, op, p, now)
          /\ history' = Logged(history, op, p, now)
    /\ UNCHANGED <<ncalls, now, healthVars, engineVars, requestVars,
                   routerVars, registryVars, gatekeeperVars, singletonVars>>

\* record_failure: self._prune_failures(provider, now)
Prune(t) ==
    /\ thread[t].pc = "prune"
    /\ failures' = [failures EXCEPT ![thread[t].provider] =
                       PruneFailures(@, thread[t].now)]
    /\ thread' = [thread EXCEPT ![t].pc = "append"]
    /\ UNCHANGED <<lock, ncalls, sequential, history, now, cooldown_until,
                   engineVars, requestVars, routerVars, registryVars, gatekeeperVars, singletonVars>>

\* record_failure: self._failures[provider].append(now); count = len(...)
AppendFailure(t) ==
    /\ thread[t].pc = "append"
    /\ failures' = [failures EXCEPT ![thread[t].provider] = Append(@, thread[t].now)]
    /\ thread' = [thread EXCEPT ![t].pc = "threshold",
                                ![t].count = Len(failures'[thread[t].provider])]
    /\ UNCHANGED <<lock, ncalls, sequential, history, now, cooldown_until,
                   engineVars, requestVars, routerVars, registryVars, gatekeeperVars, singletonVars>>

\* record_failure: if count > FAILURE_THRESHOLD, set the cooldown; return.
Threshold(t) ==
    /\ thread[t].pc = "threshold"
    /\ LET p == thread[t].provider IN
          cooldown_until' =
              IF ThresholdExceeded(thread[t].count)
              THEN [q \in DOMAIN cooldown_until \cup {p} |->
                       IF q = p THEN thread[t].now + COOLDOWN_PERIOD_SECONDS
                       ELSE cooldown_until[q]]
              ELSE cooldown_until
    /\ lock' = "None"
    /\ thread' = [thread EXCEPT ![t] = IdleThread]
    /\ UNCHANGED <<ncalls, sequential, history, now, failures, engineVars, requestVars,
                   routerVars, registryVars, gatekeeperVars, singletonVars>>

\* record_success: self._failures[provider].clear()
ClearFailures(t) ==
    /\ thread[t].pc = "clear_failures"
    /\ failures' = RecordSuccessFailures(failures, thread[t].provider)
    /\ thread' = [thread EXCEPT ![t].pc = "clear_cooldown"]
    /\ UNCHANGED <<lock, ncalls, sequential, history, now, cooldown_until,
                   engineVars, requestVars, routerVars, registryVars, gatekeeperVars, singletonVars>>

\* record_success: del self._cooldown_until[provider]; return.
ClearCooldown(t) ==
    /\ thread[t].pc = "clear_cooldown"
    /\ cooldown_until' = RecordSuccessCooldown(cooldown_until, thread[t].provider)
    /\ lock' = "None"
    /\ thread' = [thread EXCEPT ![t] = IdleThread]
    /\ UNCHANGED <<ncalls, sequential, history, now, failures, engineVars, requestVars,
                   routerVars, registryVars, gatekeeperVars, singletonVars>>

\* is_provider_healthy: the cooldown test and the lazy delete; the value to
\* return is fixed and the lock released.
HealthCheck(t) ==
    /\ thread[t].pc = "check"
    /\ LET p == thread[t].provider
       IN /\ cooldown_until' = HealthCheckCooldown(cooldown_until, p, thread[t].now)
          /\ failures' = HealthCheckFailures(failures, cooldown_until, p, thread[t].now)
          /\ thread' = [thread EXCEPT
                 ![t].pc = "return",
                 ![t].value = IF IsProviderHealthy(cooldown_until, p, thread[t].now)
                              THEN "True" ELSE "False"]
    /\ lock' = "None"
    /\ UNCHANGED <<ncalls, sequential, history, now, engineVars, requestVars,
                   routerVars, registryVars, gatekeeperVars, singletonVars>>

\* is_provider_healthy: the caller has the returned value.
ReturnHealth(t) ==
    /\ thread[t].pc = "return"
    /\ thread' = [thread EXCEPT ![t] = IdleThread]
    /\ UNCHANGED <<lock, ncalls, sequential, history, now, healthVars, engineVars,
                   requestVars, routerVars, registryVars, gatekeeperVars, singletonVars>>

\* time.time() moves on to a later instant.
ClockAdvance ==
    /\ \E later \in Instants : later > now /\ now' = later
    /\ UNCHANGED <<trackerVars, healthVars, engineVars, requestVars, routerVars, registryVars, gatekeeperVars, singletonVars>>

\* Two threads call the LoadBalancer, again and again, while time passes.
NextTracker ==
    \/ \E t \in TwoThreads : BeginCall(t, MaxCalls)
    \/ \E t \in TwoThreads : Acquire(t)
    \/ \E t \in TwoThreads : Prune(t)
    \/ \E t \in TwoThreads : AppendFailure(t)
    \/ \E t \in TwoThreads : Threshold(t)
    \/ \E t \in TwoThreads : ClearFailures(t)
    \/ \E t \in TwoThreads : ClearCooldown(t)
    \/ \E t \in TwoThreads : HealthCheck(t)
    \/ \E t \in TwoThreads : ReturnHealth(t)
    \/ ClockAdvance

SpecTracker == InitTracker /\ [][NextTracker]_vars

\* The tracker s after k more record_failure(P1) calls at instant t.
RECURSIVE FailuresAt(_, _, _)
FailuresAt(s, k, t) ==
    IF k = 0 THEN s ELSE Sequentially(FailuresAt(s, k - 1, t), "record_failure", "P1", t)

\* The last instant of a cooldown of P1 that FAILURE_THRESHOLD + 1 failures
\* at 0 began, after k failures of P1 recorded at that instant while the
\* breaker was open.
InitLazyClose ==
    /\ registry = <<>>
    /\ budget_client = "None" /\ audit_client = "None"
    /\ router_budget_client = "None"
    /\ max_retries = MAX_RETRIES
    /\ now = COOLDOWN_PERIOD_SECONDS - 1
    /\ \E k \in {0, 1, FAILURE_THRESHOLD} :
          LET opened == Tracker(FailuresAfter(NoFailures, "P1", FAILURE_THRESHOLD + 1),
                                CooldownAfter(NoFailures, NoCooldown, "P1",
                                              FAILURE_THRESHOLD + 1))
              s == FailuresAt(opened, k, now)
          IN /\ failures = s.failures
             /\ cooldown_until = s.cooldown_until
             /\ history = [EarlierCalls("P1", FAILURE_THRESHOLD + 1) EXCEPT
                               !["P1"] = @ \o [i \in 1..k |-> now]]
    /\ InitRequests({})
    /\ InitTrackerIdle
    /\ sequential = Tracker(failures, cooldown_until)
    /\ route_call = NoRouteCall
    /\ InitRegistryIdle
    /\ classify_call = NoClassifyCall
    /\ InitEngineBuilt

SpecLazyClose == InitLazyClose /\ [][NextTracker]_vars

\* A burst: every thread makes one call, all at the same instant (the start
\* or the end of a cooldown that began at 0), on a tracker that earlier calls
\* left with no failure of P1 or with FAILURE_THRESHOLD + 1 of them.
InitBurst ==
    /\ registry = <<>>
    /\ budget_client = "None" /\ audit_client = "None"
    /\ router_budget_client = "None"
    /\ max_retries = MAX_RETRIES
    /\ now \in {0, COOLDOWN_PERIOD_SECONDS}
    /\ \E n \in {0, FAILURE_THRESHOLD + 1} :
          /\ failures = FailuresAfter(NoFailures, "P1", n)
          /\ cooldown_until = CooldownAfter(NoFailures, NoCooldown, "P1", n)
          /\ history = EarlierCalls("P1", n)
    /\ InitRequests({})
    /\ InitTrackerIdle
    /\ sequential = Tracker(failures, cooldown_until)
    /\ route_call = NoRouteCall
    /\ InitRegistryIdle
    /\ classify_call = NoClassifyCall
    /\ InitEngineBuilt

NextBurst ==
    \/ \E t \in Threads : BeginCall(t, Cardinality(Threads))
    \/ \E t \in Threads : Acquire(t)
    \/ \E t \in Threads : Prune(t)
    \/ \E t \in Threads : AppendFailure(t)
    \/ \E t \in Threads : Threshold(t)
    \/ \E t \in Threads : ClearFailures(t)
    \/ \E t \in Threads : ClearCooldown(t)
    \/ \E t \in Threads : HealthCheck(t)
    \/ \E t \in Threads : ReturnHealth(t)

SpecBurst == InitBurst /\ [][NextBurst]_vars

---------------------------------------------------------------------------
(* Router.route called directly, on a fixed registry *)

InitRouter ==
    /\ registry \in RouterRegistries
    /\ budget_client = "budget" /\ audit_client = "audit"
    /\ router_budget_client = "budget"
    /\ max_retries = MAX_RETRIES
    /\ InitHealth
    /\ InitRequests({})
    /\ InitTrackerIdle
    /\ sequential = Tracker(NoFailures, NoCooldown)
    /\ history = EarlierCalls("P1", 0)
    /\ route_call = NoRouteCall
    /\ InitRegistryIdle
    /\ classify_call = NoClassifyCall
    /\ InitEngineBuilt

\* Router.route(context, user_id, excluded_providers)
RouteDirect ==
    /\ route_call = NoRouteCall
    /\ \E context \in {RoutingContext(c, d) : c \in Complexities, d \in Domains},
          excluded \in ExclusionSets, budget \in RouterBudgetAnswers :
          /\ route_call' =
                 RouteCall(context, excluded, budget, cooldown_until, now,
                           BaselineTier(context), TargetTier(context, budget),
                           Route(registry, context, excluded, budget,
                                 cooldown_until, now),
                           RouteError(registry, context, excluded, budget,
                                      cooldown_until, now))
          /\ cooldown_until' =
                 RouteCooldown(registry, context, excluded, budget, cooldown_until, now)
    /\ UNCHANGED <<engineVars, now, failures, requestVars, trackerVars, registryVars, gatekeeperVars, singletonVars>>

\* The caller is done with what route returned.
RouteReturn ==
    /\ route_call # NoRouteCall
    /\ route_call' = NoRouteCall
    /\ UNCHANGED <<engineVars, now, healthVars, requestVars, trackerVars, registryVars, gatekeeperVars, singletonVars>>

\* Time passes between two calls.
RouterTick ==
    /\ route_call = NoRouteCall
    /\ now + COOLDOWN_PERIOD_SECONDS <= MaxTime
    /\ now' = now + COOLDOWN_PERIOD_SECONDS
    /\ UNCHANGED <<engineVars, healthVars, requestVars, trackerVars, routerVars, registryVars, gatekeeperVars, singletonVars>>

NextRouter == RouteDirect \/ RouteReturn \/ RouterTick

SpecRouter == InitRouter /\ [][NextRouter]_vars

---------------------------------------------------------------------------
(* ModelRegistry and ArbitrageEngine.configure, called by threads *)

\* The definitions registered: two of them share the id "a".
ModelA3 == ModelDefinition("a", "P2", TIER_2_SMART, 12, 24, TRUE, NoDomain)
RegistryModels == {ModelA, ModelA3, ModelB, ModelG}
RegistryIds == {"a", "b", "generic"}
RegistryTiers == {"None", TIER_1_FAST}

\* What foundry_client.list_custom_models() did: raised, or returned models.
FoundryAnswer(raised, models) == [raised |-> raised, models |-> models]
FoundryAnswers ==
    {FoundryAnswer(TRUE, <<>>), FoundryAnswer(FALSE, <<ModelA, ModelB>>),
     FoundryAnswer(FALSE, <<ModelA3, ModelG>>)}

\* The calls a thread may make.
RegistryCalls ==
    {RegistryCall("call", "register_model", <<m>>, "None", "None", <<>>, <<>>, <<>>, {}, <<>>) :
        m \in RegistryModels}
    \cup {RegistryCall("call", "get_model", <<>>, i, "None", <<>>, <<>>, <<>>, {}, <<>>) :
              i \in RegistryIds}
    \cup {RegistryCall("call", "list_models", <<>>, "None", tier, <<>>, <<>>, <<>>, {}, <<>>) :
              tier \in RegistryTiers}
    \cup {RegistryCall("call", "clear", <<>>, "None", "None", <<>>, <<>>, <<>>, {}, <<>>)}
    \cup {RegistryCall("call", "configure", a.models, "None", "None", a.models, <<>>, <<>>, {}, <<>>) :
              a \in FoundryAnswers}

\* The ids of a sequence of definitions, in order.
IdsOf(models) == [i \in 1..Len(models) |-> models[i].id]

\* The registry is written: every call in progress has seen the new content.
Witnessed(calls, reg) ==
    [t \in Threads |->
        IF calls[t].at \in {"call", "locked", "copied"}
        THEN [calls[t] EXCEPT !.window = @ \cup {reg}]
        ELSE calls[t]]

\* The registry as earlier calls left it: empty, or holding two models.
InitRegistry ==
    /\ registry \in {<<>>, <<ModelA, ModelB>>}
    /\ budget_client = "None" /\ audit_client = "None"
    /\ router_budget_client = "None"
    /\ max_retries = MAX_RETRIES
    /\ now = 0 /\ failures = NoFailures /\ cooldown_until = NoCooldown
    /\ InitRequests({})
    /\ InitTrackerIdle
    /\ sequential = Tracker(NoFailures, NoCooldown)
    /\ history = EarlierCalls("P1", 0)
    /\ route_call = NoRouteCall
    /\ reg_lock = "None"
    /\ reg_thread = [t \in Threads |-> IdleRegistryCall]
    /\ reg_calls = 0
    /\ inserted = IdsOf(registry)
    /\ latest = [i \in Range(IdsOf(registry)) |-> GetModel(registry, i)]
    /\ classify_call = NoClassifyCall
    /\ InitEngineBuilt

\* A thread calls register_model, get_model, list_models, clear or
\* ArbitrageEngine.configure; configure stores the clients and asks the
\* foundry for its models.  A call is made by the first idle thread.
RegistryBeginCall(t, limit) ==
    /\ reg_thread[t].at = "idle"
    /\ \A u \in Threads : reg_thread[u].at = "idle" => ThreadOrder[t] <= ThreadOrder[u]
    /\ reg_calls < limit
    /\ \E c \in RegistryCalls :
          /\ reg_thread' =
                 [reg_thread EXCEPT ![t] =
                     [c EXCEPT !.base = registry, !.window = {registry},
                               !.at = IF c.op = "configure" /\ c.todo = <<>>
                                      THEN "return" ELSE "call"]]
          /\ IF c.op = "configure"
             THEN budget_client' = "budget" /\ audit_client' = "audit"
             ELSE UNCHANGED <<budget_client, audit_client>>
    /\ reg_calls' = reg_calls + 1
    /\ UNCHANGED <<registry, router_budget_client, max_retries, now, healthVars,
                   requestVars, trackerVars, routerVars, gatekeeperVars, singletonVars, reg_lock, inserted, latest>>

\* with self._lock (register_model, list_models, clear).
RegistryAcquire(t) ==
    /\ reg_thread[t].at = "call"
    /\ reg_thread[t].op # "get_model"
    /\ LockFree(reg_lock)
    /\ reg_lock' = t
    /\ reg_thread' = [reg_thread EXCEPT ![t].at = "locked"]
    /\ UNCHANGED <<engineVars, now, healthVars, requestVars, trackerVars, routerVars, gatekeeperVars, singletonVars,
                   reg_calls, inserted, latest>>

\* register_model: the assignment, and the release of the lock.  configure
\* goes on with the next model of the snapshot.
RegisterWrite(t) ==
    /\ reg_thread[t].at = "locked"
    /\ reg_thread[t].op \in {"register_model", "configure"}
    /\ LET model == Head(reg_thread[t].todo)
           rest == Tail(reg_thread[t].todo)
           written == RegisterModel(WriteBase(registry, reg_thread[t].base), model)
       IN /\ registry' = written
          /\ reg_thread' =
                 Witnessed([reg_thread EXCEPT
                               ![t].todo = rest,
                               ![t].at = IF rest = <<>> THEN "return" ELSE "call"],
                           written)
          /\ inserted' = IF model.id \in Range(inserted) THEN inserted
                         ELSE Append(inserted, model.id)
          /\ latest' = [i \in DOMAIN latest \cup {model.id} |->
                            IF i = model.id THEN model ELSE latest[i]]
    /\ reg_lock' = "None"
    /\ UNCHANGED <<budget_client, audit_client, router_budget_client, max_retries,
                   now, healthVars, requestVars, trackerVars, routerVars, gatekeeperVars, singletonVars, reg_calls>>

\* get_model: the lookup, made without the lock.
GetRead(t) ==
    /\ reg_thread[t].at = "call"
    /\ reg_thread[t].op = "get_model"
    /\ reg_thread' = [reg_thread EXCEPT
                         ![t].value = GetModel(registry, reg_thread[t].id),
                         ![t].at = "return"]
    /\ UNCHANGED <<engineVars, now, healthVars, requestVars, trackerVars, routerVars, gatekeeperVars, singletonVars,
                   reg_lock, reg_calls, inserted, latest>>

\* list_models: the copy taken under the lock, and the release of the lock.
ListCopy(t) ==
    /\ reg_thread[t].at = "locked"
    /\ reg_thread[t].op = "list_models"
    /\ reg_thread' = [reg_thread EXCEPT ![t].all_models = registry, ![t].at = "copied"]
    /\ reg_lock' = "None"
    /\ UNCHANGED <<engineVars, now, healthVars, requestVars, trackerVars, routerVars, gatekeeperVars, singletonVars,
                   reg_calls, inserted, latest>>

\* list_models: the tier filter on the copy.
ListFilter(t) ==
    /\ reg_thread[t].at = "copied"
    /\ reg_thread' = [reg_thread EXCEPT
                         ![t].value = ListModels(reg_thread[t].all_models, reg_thread[t].tier),
                         ![t].at = "return"]
    /\ UNCHANGED <<engineVars, now, healthVars, requestVars, trackerVars, routerVars, gatekeeperVars, singletonVars,
                   reg_lock, reg_calls, inserted, latest>>

\* clear: self._models.clear(), and the release of the lock.
ClearWrite(t) ==
    /\ reg_thread[t].at = "locked"
    /\ reg_thread[t].op = "clear"
    /\ registry' = <<>>
    /\ reg_thread' = Witnessed([reg_thread EXCEPT ![t].at = "return"], <<>>)
    /\ inserted' = <<>>
    /\ latest' = [i \in {} |-> NoModel]
    /\ reg_lock' = "None"
    /\ UNCHANGED <<budget_client, audit_client, router_budget_client, max_retries,
                   now, healthVars, requestVars, trackerVars, routerVars, gatekeeperVars, singletonVars, reg_calls>>

\* The call returns to its caller.
RegistryReturn(t) ==
    /\ reg_thread[t].at = "return"
    /\ reg_thread' = [reg_thread EXCEPT ![t] = IdleRegistryCall]
    /\ UNCHANGED <<engineVars, now, healthVars, requestVars, trackerVars, routerVars, gatekeeperVars, singletonVars,
                   reg_lock, reg_calls, inserted, latest>>

\* The calls made one after the other by one thread.
NextRegistry ==
    \/ RegistryBeginCall("T1", MaxCalls)
    \/ RegistryAcquire("T1")
    \/ RegisterWrite("T1")
    \/ GetRead("T1")
    \/ ListCopy("T1")
    \/ ListFilter("T1")
    \/ ClearWrite("T1")
    \/ RegistryReturn("T1")

SpecRegistry == InitRegistry /\ [][NextRegistry]_vars

\* The calls made by two threads at once.
NextRegistryThreads ==
    \/ \E t \in TwoThreads : RegistryBeginCall(t, MaxCalls)
    \/ \E t \in TwoThreads : RegistryAcquire(t)
    \/ \E t \in TwoThreads : RegisterWrite(t)
    \/ \E t \in TwoThreads : GetRead(t)
    \/ \E t \in TwoThreads : ListCopy(t)
    \/ \E t \in TwoThreads : ListFilter(t)
    \/ \E t \in TwoThreads : ClearWrite(t)
    \/ \E t \in TwoThreads : RegistryReturn(t)

SpecRegistryThreads == InitRegistry /\ [][NextRegistryThreads]_vars

---------------------------------------------------------------------------
(* Gatekeeper.classify called directly *)

\* The words of the prompts: keywords of both rules in several letter cases,
\* the two words of "adverse event", a word that only begins with a keyword,
\* and a word of no rule.
PromptWords ==
    {"hello", "danger", "IMMEDIATE", "clinical", "Dose", "adverse", "event", "hazardous"}

\* The prompts of up to three words.
GatekeeperPrompts ==
    {Prompt(0, <<>>)}
    \cup {Prompt(10, <<a>>) : a \in PromptWords}
    \cup {Prompt(20, <<a, b>>) : a \in PromptWords, b \in PromptWords}
    \cup {Prompt(30, <<a, b, c>>) : a \in PromptWords, b \in PromptWords, c \in PromptWords}

InitGatekeeper ==
    /\ registry = <<>>
    /\ budget_client = "None" /\ audit_client = "None"
    /\ router_budget_client = "None"
    /\ max_retries = MAX_RETRIES
    /\ now = 0 /\ failures = NoFailures /\ cooldown_until = NoCooldown
    /\ InitRequests({})
    /\ InitTrackerIdle
    /\ sequential = Tracker(NoFailures, NoCooldown)
    /\ history = EarlierCalls("P1", 0)
    /\ route_call = NoRouteCall
    /\ InitRegistryIdle
    /\ classify_call = NoClassifyCall
    /\ InitEngineBuilt

\* Gatekeeper.classify(text)
ClassifyDirect ==
    /\ \E text \in GatekeeperPrompts :
          classify_call' = ClassifyCall(text, Classify(text))
    /\ UNCHANGED <<engineVars, now, healthVars, requestVars, trackerVars, routerVars,
                   registryVars, singletonVars>>

NextGatekeeper == ClassifyDirect

SpecGatekeeper == InitGatekeeper /\ [][NextGatekeeper]_vars

---------------------------------------------------------------------------
(* ArbitrageEngine() and ArbitrageEngine.__init__ called by threads.  Each   *)
(* statement of __new__ and __init__ is one step.                            *)

InitEngineFresh ==
    /\ registry = <<>>
    /\ budget_client = "None" /\ audit_client = "None"
    /\ router_budget_client = "None"
    /\ max_retries = MAX_RETRIES
    /\ now = 0 /\ failures = NoFailures /\ cooldown_until = NoCooldown
    /\ InitRequests({})
    /\ InitTrackerIdle
    /\ sequential = Tracker(NoFailures, NoCooldown)
    /\ history = EarlierCalls("P1", 0)
    /\ route_call = NoRouteCall
    /\ InitRegistryIdle
    /\ classify_call = NoClassifyCall
    /\ engine_cls = FreshEngineClass
    /\ construct = [t \in Threads |-> IdleConstructor]
    /\ engine_calls = 0

\* A thread calls ArbitrageEngine(), or __init__ again on the instance a
\* construction gave it.
EngineBegin(t, limit) ==
    /\ construct[t].pc = "idle"
    /\ engine_calls < limit
    /\ \E op \in {"ArbitrageEngine", "__init__"} :
          /\ op = "__init__" => construct[t].returned # 0
          /\ construct' = [construct EXCEPT ![t] =
                 IF op = "ArbitrageEngine"
                 THEN Constructor("new_26", op, 0, 0, "None")
                 ELSE Constructor("init_34", op, construct[t].returned, 0, "None")]
    /\ engine_calls' = engine_calls + 1
    /\ UNCHANGED <<engineVars, now, healthVars, requestVars, trackerVars, routerVars,
                   registryVars, gatekeeperVars, engine_cls>>

\* One statement of ArbitrageEngine.__new__ (the pc is the source line).
EngineNew(t) ==
    LET c == construct[t]
        at(pc2) == [construct EXCEPT ![t].pc = pc2]
    IN  /\ \/ /\ c.pc = "new_26"
              /\ IF engine_cls.instance = 0
                 THEN construct' = at("new_27")
                 ELSE construct' = [construct EXCEPT ![t].pc = "init_34",
                                                     ![t].self = engine_cls.instance]
              /\ UNCHANGED engine_cls
           \/ /\ c.pc = "new_27"
              /\ LockFree(engine_cls.lock)
              /\ engine_cls' = [engine_cls EXCEPT !.lock = t]
              /\ construct' = at("new_28")
           \/ /\ c.pc = "new_28"
              /\ construct' = at(IF engine_cls.instance = 0 THEN "new_29" ELSE "new_31")
              /\ UNCHANGED engine_cls
           \/ /\ c.pc = "new_29"
              /\ engine_cls' = [engine_cls EXCEPT !.instances = @ + 1,
                                                  !.instance = engine_cls.instances + 1,
                                                  !.has_initialized = FALSE]
              /\ construct' = at("new_30")
           \/ /\ c.pc = "new_30"
              /\ engine_cls' = [engine_cls EXCEPT !.has_initialized = TRUE,
                                                  !.initialized = FALSE]
              /\ construct' = at("new_31")
           \/ /\ c.pc = "new_31"
              /\ engine_cls' = [engine_cls EXCEPT !.lock = "None"]
              /\ construct' = [construct EXCEPT ![t].pc = "init_34",
                                                ![t].self = engine_cls.instance]
        /\ UNCHANGED <<engineVars, now, healthVars, requestVars, trackerVars, routerVars,
                       registryVars, gatekeeperVars, engine_calls>>

\* One statement of ArbitrageEngine.__init__ (the pc is the source line).
\* Reading self._initialized before line 30 has set it raises AttributeError.
EngineInit(t) ==
    LET c == construct[t]
        at(pc2) == [construct EXCEPT ![t].pc = pc2]
        returns == [construct EXCEPT ![t].pc = "idle", ![t].returned = c.self]
        raises(e) == [construct EXCEPT ![t].pc = "idle", ![t].raised = e]
    IN  /\ \/ /\ c.pc = "init_34"
              /\ construct' =
                    IF ~engine_cls.has_initialized THEN raises("AttributeError")
                    ELSE IF engine_cls.initialized THEN returns
                    ELSE at("init_36")
              /\ UNCHANGED <<engine_cls, budget_client, audit_client>>
           \/ /\ c.pc = "init_36"
              /\ LockFree(engine_cls.lock)
              /\ engine_cls' = [engine_cls EXCEPT !.lock = t]
              /\ construct' = at("init_37")
              /\ UNCHANGED <<budget_client, audit_client>>
           \/ /\ c.pc = "init_37"
              /\ construct' = at(IF engine_cls.initialized THEN "init_exit" ELSE "init_40")
              /\ UNCHANGED <<engine_cls, budget_client, audit_client>>
           \/ /\ c.pc = "init_40"
              /\ engine_cls' = [engine_cls EXCEPT !.load_balancers = @ + 1,
                                                  !.load_balancer = engine_cls.load_balancers + 1]
              /\ construct' = at("init_41")
              /\ UNCHANGED <<budget_client, audit_client>>
           \/ /\ c.pc = "init_41"
              /\ engine_cls' = [engine_cls EXCEPT !.registries = @ + 1,
                                                  !.registry = engine_cls.registries + 1]
              /\ construct' = at("init_44")
              /\ UNCHANGED <<budget_client, audit_client>>
           \/ /\ c.pc = "init_44"
              /\ budget_client' = "None"
              /\ audit_client' = "None"
              /\ construct' = at("init_48")
              /\ UNCHANGED engine_cls
           \/ /\ c.pc = "init_48"
              /\ engine_cls' = [engine_cls EXCEPT !.initialized = TRUE]
              /\ construct' = at("init_exit")
              /\ UNCHANGED <<budget_client, audit_client>>
           \/ /\ c.pc = "init_exit"
              /\ engine_cls' = [engine_cls EXCEPT !.lock = "None"]
              /\ construct' = returns
              /\ UNCHANGED <<budget_client, audit_client>>
        /\ UNCHANGED <<registry, router_budget_client, max_retries, now, healthVars,
                       requestVars, trackerVars, routerVars, registryVars, gatekeeperVars,
                       engine_calls>>

NextEngine ==
    \E t \in Threads :
        \/ EngineBegin(t, MaxCalls)
        \/ EngineNew(t)
        \/ EngineInit(t)

SpecEngine == InitEngineFresh /\ [][NextEngine]_vars

---------------------------------------------------------------------------
(* Two requests running create() concurrently on one client *)

\* What the callers and the invoker do in this scenario: both requests send
\* the same messages, whose last user message is "hello"; an invoker call
\* returns a response without usage, raises a rate-limit error or a
\* bad-request error, or is interrupted; the fallback setting is unset.
SharedScenario ==
    \A r \in Requests :
        /\ pc[r] # "admission" =>
              messages[r] = <<Message("user", ClinicalPrompt), Message("user", HelloPrompt)>>
        /\ \A i \in 1..Len(trace[r]) :
              trace[r][i].op = "invoke" =>
                  /\ trace[r][i].res \in
                        {"ok", "RateLimitError", "BadRequestError", "CancelledError"}
                  /\ trace[r][i].env \in {"None", "unset"}
        /\ result[r].kind = "return" => result[r].response.usage = MissingUsage

\* Two requests on a registry of two FAST models, of P1 and of P2; earlier
\* requests left no failure, or FAILURE_THRESHOLD failures of P1 at time 0.
InitShared ==
    /\ registry = <<ModelA, ModelB>>
    /\ budget_client = "None" /\ audit_client = "None"
    /\ router_budget_client = "None"
    /\ max_retries = MAX_RETRIES
    /\ now = 0
    /\ \E n \in {0, FAILURE_THRESHOLD} :
          /\ failures = FailuresAfter(NoFailures, "P1", n)
          /\ cooldown_until = CooldownAfter(NoFailures, NoCooldown, "P1", n)
    /\ InitRequests({"R1", "R2"})
    /\ InitTrackerIdle /\ sequential = Tracker(NoFailures, NoCooldown)
    /\ history = EarlierCalls("P1", 0)
    /\ route_call = NoRouteCall
    /\ InitRegistryIdle
    /\ classify_call = NoClassifyCall
    /\ InitEngineBuilt

NextShared ==
    /\ \E r \in Requests :
          \/ Admit(r)
          \/ RouteAttempt(r)
          \/ InvokeSuccess(r)
          \/ InvokeFailure(r)
          \/ InvokeInterrupted(r)
          \/ FailOpenSuccess(r)
          \/ FailOpenFailure(r)
    /\ SharedScenario'

SpecShared == InitShared /\ [][NextShared]_vars

---------------------------------------------------------------------------
(* Reading a request's trace *)

Indices(r) == 1..Len(trace[r])

IsLoopInvoke(e) == e.op = "invoke" /\ e.phase = "loop"
IsFailOpenInvoke(e) == e.op = "invoke" /\ e.phase = "fail_open"
IsAccounting(e) == e.op \in {"log_transaction", "deduct_funds"}

RouteCalls(r) == {i \in Indices(r) : trace[r][i].op = "route"}
LoopInvokes(r) == {i \in Indices(r) : IsLoopInvoke(trace[r][i])}
FailOpenInvokes(r) == {i \in Indices(r) : IsFailOpenInvoke(trace[r][i])}
RecordedFailures(r) == {i \in Indices(r) : trace[r][i].op = "record_failure"}
AccountingCalls(r, op) == {i \in Indices(r) : trace[r][i].op = op}

\* The retry loop of r returned a response.
LoopReturned(r) == \E i \in LoopInvokes(r) : trace[r][i].res = "ok"

\* r was cancelled during an invoker call of its retry loop.
Cancelled(r) == \E i \in LoopInvokes(r) : trace[r][i].res = "CancelledError"

\* The retry loop of r was entered or skipped (the request was admitted).
Classified(r) == \E i \in Indices(r) : trace[r][i].op = "classify"

---------------------------------------------------------------------------
(* C1: a provider is in a request's exclusion set only if a loop invoke of   *)
(* that request on a model of that provider failed with a rate-limit,       *)
(* service-unavailable or connection error; a step that adds a provider is  *)
(* such a failed invoke, and no step removes a provider from the set.       *)

C1_ExcludedWasRetriable ==
    \A r \in Requests : \A p \in failed_providers[r] :
        \E i \in LoopInvokes(r) :
            /\ trace[r][i].provider = p
            /\ trace[r][i].res \in
                   {"RateLimitError", "ServiceUnavailableError", "APIConnectionError"}

C1_ExclusionStep ==
    \A r \in Requests :
        /\ failed_providers[r] \subseteq failed_providers'[r]
        /\ failed_providers'[r] # failed_providers[r] =>
              /\ pc[r] = "invoke"
              /\ failed_providers'[r] = failed_providers[r] \cup {model_def[r].provider}
              /\ last_exception'[r].src = "invoker"
              /\ last_exception'[r].type \in
                     {"RateLimitError", "ServiceUnavailableError", "APIConnectionError"}

\* C1: in every state every excluded provider had a retriable invoker failure
\* in the same request, and every step keeps or grows the exclusion set, growing
\* it only by the provider of an invoke that failed with a retriable error.
C1_ExclusionOnlyOnRetriable ==
    []C1_ExcludedWasRetriable /\ [][C1_ExclusionStep]_vars

\* Both providers were excluded in one request.
C1_Witness ==
    \E r \in Requests : failed_providers[r] = {"P1", "P2"} /\ pc[r] = "done"

---------------------------------------------------------------------------
(* C2: record_failure(provider) is called exactly after a loop invoke on a   *)
(* model of that provider failed with a retriable error.  After any other    *)
(* invoker error nothing is recorded and the next Router call gets the same  *)
(* exclusion set as the one before; with the single-model registry every     *)
(* attempt that follows a non-retriable failure invokes that model again.    *)

---------------------------------------------------------------------------
(* C3: a request makes at most one fail-open invoke; when it makes one, the  *)
(* retry loop has run all its attempts, nothing of the loop follows it, and  *)
(* no invoke of the loop returned a response.                                *)

C3_FailOpenOnceAfterLoop ==
    \A r \in Requests :
        /\ Cardinality(FailOpenInvokes(r)) <= 1
        /\ \A i \in FailOpenInvokes(r) :
              /\ attempt[r] = max_retries
              /\ \A k \in 1..max_retries : \E j \in RouteCalls(r) :
                    j < i /\ trace[r][j].attempt = k
              /\ ~LoopReturned(r)
              /\ \A j \in Indices(r) :
                    j > i => trace[r][j].phase = "fail_open" /\ IsAccounting(trace[r][j])
        /\ pc[r] = "fail_open" => attempt[r] = max_retries /\ ~LoopReturned(r)

\* Three failed attempts, then the fail-open invoke.
C3_Witness ==
    \E r \in Requests :
        /\ Cardinality(LoopInvokes(r)) = 3
        /\ Cardinality(FailOpenInvokes(r)) = 1
        /\ pc[r] = "done"

---------------------------------------------------------------------------
(* C4: a request that was admitted and whose retry loop ended without a      *)
(* response (it was not cancelled in the loop) makes exactly one fail-open   *)
(* invoke, with the configured fallback model id, which is "azure/gpt-4o"    *)
(* when the setting is unset; the request then fails only if that invoke     *)
(* fails.                                                                    *)

C4_WitnessMixed ==
    \E r \in Requests :
        /\ pc[r] = "done"
        /\ \E i \in RouteCalls(r) : trace[r][i].res = "None"
        /\ \E i \in LoopInvokes(r) : trace[r][i].res = "BadRequestError"
        /\ \E i \in LoopInvokes(r) : trace[r][i].res = "RateLimitError"
        /\ Cardinality(FailOpenInvokes(r)) = 1

---------------------------------------------------------------------------
(* The model that produced the response a request returned *)

\* The invoke that returned the response of r.
AnsweringInvoke(r) == CHOOSE i \in Indices(r) : trace[r][i].op = "invoke" /\ trace[r][i].res = "ok"

\* The prices of the model invoked by event e: those registered for a model of
\* the loop, the fallback prices of create() for the fail-open model.
InputPrice(e) ==
    IF e.phase = "fail_open" THEN 5
    ELSE (CHOOSE m \in Range(registry) : m.id = e.model).cost_per_1k_input
OutputPrice(e) ==
    IF e.phase = "fail_open" THEN 15
    ELSE (CHOOSE m \in Range(registry) : m.id = e.model).cost_per_1k_output

\* The cost of the response r returned, from its usage and those prices.
ExpectedCost(r) ==
    result[r].response.usage.prompt_tokens * InputPrice(trace[r][AnsweringInvoke(r)])
    + result[r].response.usage.completion_tokens
        * OutputPrice(trace[r][AnsweringInvoke(r)])

AccountedOnce(r, op) ==
    /\ Cardinality(AccountingCalls(r, op)) = 1
    /\ \A i \in AccountingCalls(r, op) :
          /\ trace[r][i].cost = ExpectedCost(r)
          /\ trace[r][i].model = result[r].response.model
          /\ i > AnsweringInvoke(r)

NotAccounted(r) ==
    AccountingCalls(r, "log_transaction") = {} /\ AccountingCalls(r, "deduct_funds") = {}

---------------------------------------------------------------------------
(* C5, as claimed: for every request that returns a response, either         *)
(* log_transaction and deduct_funds were both invoked, each exactly once and *)
(* with the cost computed from the chosen model's prices and the response    *)
(* usage, or cost extraction failed and neither was invoked.                 *)

C5_Original ==
    \A r \in Requests :
        result[r].kind = "return" =>
            \/ AccountedOnce(r, "log_transaction") /\ AccountedOnce(r, "deduct_funds")
            \/ result[r].response.usage.missing /\ NotAccounted(r)

(* C5, amended: for every request that returns a response, when cost          *)
(* extraction succeeded log_transaction was invoked exactly once if an Audit  *)
(* client is configured and deduct_funds exactly once if a Budget client is   *)
(* configured, with the same cost computed from the chosen model's prices and *)
(* the response usage, and a client that is not configured is not invoked;    *)
(* when cost extraction failed neither was invoked.                           *)

C5_AccountingMatchesConfiguration ==
    \A r \in Requests :
        result[r].kind = "return" =>
            IF result[r].response.usage.missing THEN NotAccounted(r)
            ELSE /\ IF audit_client # "None" THEN AccountedOnce(r, "log_transaction")
                    ELSE AccountingCalls(r, "log_transaction") = {}
                 /\ IF budget_client # "None" THEN AccountedOnce(r, "deduct_funds")
                    ELSE AccountingCalls(r, "deduct_funds") = {}

\* A response of the loop and a response of fail-open, each accounted twice
\* with a non-zero cost.
C5_Witness ==
    \E r \in Requests :
        /\ result[r].kind = "return"
        /\ result[r].response.model = "b"
        /\ AccountedOnce(r, "log_transaction") /\ AccountedOnce(r, "deduct_funds")
        /\ ExpectedCost(r) = 1000 * 30 + 500 * 60

C5_WitnessFailOpen ==
    \E r \in Requests :
        /\ result[r].kind = "return"
        /\ FailOpenInvokes(r) # {}
        /\ AccountedOnce(r, "log_transaction") /\ AccountedOnce(r, "deduct_funds")
        /\ ExpectedCost(r) = 1000 * 5 + 500 * 15

---------------------------------------------------------------------------
(* C6: once an invoke has returned a response, the request returns that      *)
(* response whatever the accounting calls do: a log_transaction that raises  *)
(* is followed by the deduct_funds call, and nothing but accounting calls    *)
(* follows the invoke that answered (no Router call, no invoke, no            *)
(* record_failure).                                                          *)

C6_AccountingErrorsSwallowed ==
    \A r \in Requests : \A i \in Indices(r) :
        LET e == trace[r][i]
        IN /\ (e.op = "invoke" /\ e.res = "ok") =>
                 /\ pc[r] = "done"
                 /\ result[r].kind = "return"
                 /\ result[r].response.model = e.model
                 /\ \A j \in Indices(r) : j > i =>
                       \/ IsAccounting(trace[r][j]) /\ trace[r][j].phase = e.phase
                       \/ j = i + 1 /\ trace[r][j].op = "record_success"
           /\ (e.op = "log_transaction" /\ e.res = "raise") =>
                 /\ i + 1 <= Len(trace[r])
                 /\ trace[r][i + 1].op = "deduct_funds"
                 /\ trace[r][i + 1].cost = e.cost

\* Both accounting calls raised and the response was returned.
C6_Witness ==
    \E r \in Requests :
        /\ result[r].kind = "return"
        /\ \E i \in AccountingCalls(r, "log_transaction") : trace[r][i].res = "raise"
        /\ \E i \in AccountingCalls(r, "deduct_funds") : trace[r][i].res = "raise"

---------------------------------------------------------------------------
(* C7: when a Budget client is configured and check_allowance returns false, *)
(* the request fails with the "Budget exceeded." PermissionError and makes   *)
(* no other call: no classify, no Router call, no invoke (fail-open          *)
(* included), no Health Tracker update, no Audit or deduction call.          *)

C7_DenialStopsRequest ==
    \A r \in Requests :
        (budget_client # "None" /\ trace[r] # <<>>
            /\ trace[r][1].op = "check_allowance" /\ trace[r][1].res = "False") =>
            /\ Len(trace[r]) = 1
            /\ pc[r] = "done"
            /\ result[r].kind = "raise"
            /\ result[r].error.type = "PermissionError"
            /\ result[r].error.msg = "Budget exceeded."
            /\ result[r].cause.type = "None"
            /\ attempt[r] = 0 /\ failed_providers[r] = {} /\ model_def[r].id = "None"

\* A request denied by the Budget client.
C7_Witness ==
    \E r \in Requests :
        /\ Len(trace[r]) = 1
        /\ trace[r][1].op = "check_allowance" /\ trace[r][1].res = "False"
        /\ result[r].kind = "raise"

---------------------------------------------------------------------------
(* C8, as claimed: when check_allowance raises any error, the request fails  *)
(* with the "Budget check failed." PermissionError, a kind distinct from     *)
(* "Budget exceeded.", carrying the original error as cause; check_allowance *)
(* is not called again and no invoke is made.                                *)

C8_Original ==
    \A r \in Requests :
        (trace[r] # <<>> /\ trace[r][1].op = "check_allowance"
            /\ trace[r][1].res \notin {"True", "False"}) =>
            /\ Len(trace[r]) = 1
            /\ pc[r] = "done"
            /\ result[r].kind = "raise"
            /\ result[r].error.msg = "Budget check failed."
            /\ result[r].cause.type = trace[r][1].res
            /\ result[r].cause.src = "check_allowance"

\* What does hold: an error of check_allowance ends the request with a
\* PermissionError and without any further call; unless the error is itself a
\* PermissionError, it is the cause of a "Budget check failed." error.
C8_FailsClosed ==
    \A r \in Requests :
        (trace[r] # <<>> /\ trace[r][1].op = "check_allowance"
            /\ trace[r][1].res \notin {"True", "False"}) =>
            /\ Len(trace[r]) = 1
            /\ pc[r] = "done"
            /\ result[r].kind = "raise"
            /\ result[r].error.type = "PermissionError"
            /\ trace[r][1].res # "PermissionError" =>
                  /\ result[r].error.msg = "Budget check failed."
                  /\ result[r].cause.type = trace[r][1].res
                  /\ result[r].cause.src = "check_allowance"

---------------------------------------------------------------------------
(* C9: when the fail-open invoke fails, the request raises last_exception,   *)
(* the error of the last attempt of the retry loop (the Router's error, or   *)
(* the invoker's), with the fail-open error as its cause; it raises the      *)
(* fail-open error itself only when the loop made no attempt.                *)

\* The error of the last attempt of the loop of r, read from its trace.
LastLoopError(r) ==
    LET i == CHOOSE j \in RouteCalls(r) : \A k \in RouteCalls(r) : k <= j
    IN IF trace[r][i].res = "None"
       THEN Err("RuntimeError", "No healthy models available", "router",
                trace[r][i].attempt)
       ELSE Err(trace[r][i + 1].res, "", "invoker", trace[r][i].attempt)

C9_FailOpenFailureSurfacesLastError ==
    \A r \in Requests : \A i \in FailOpenInvokes(r) :
        trace[r][i].res # "ok" =>
            /\ result[r].kind = "raise"
            /\ IF RouteCalls(r) # {}
               THEN /\ result[r].error = LastLoopError(r)
                    /\ result[r].error = last_exception[r]
                    /\ result[r].error.at = max_retries
                    /\ result[r].cause = Err(trace[r][i].res, "", "fail_open", 0)
               ELSE /\ result[r].error = Err(trace[r][i].res, "", "fail_open", 0)
                    /\ result[r].cause = NoError
                    /\ last_exception[r] = NoError

\* The last attempt failed in the Router after an earlier invoker error, and
\* fail-open failed too: the Router's error is raised.
C9_Witness ==
    \E r \in Requests :
        /\ result[r].kind = "raise"
        /\ result[r].error.src = "router" /\ result[r].error.at = 3
        /\ result[r].cause.src = "fail_open"
        /\ \E i \in LoopInvokes(r) : trace[r][i].res \notin {"ok"}

\* No attempt was made and fail-open failed: its own error is raised.
C9_WitnessNoAttempt ==
    \E r \in Requests :
        /\ result[r].kind = "raise"
        /\ result[r].error.src = "fail_open"
        /\ RouteCalls(r) = {}

---------------------------------------------------------------------------
(* C10: every request ends with a response or an error after at most         *)
(* MAX_RETRIES (3) Router calls, at most 3 invokes in the loop and at most   *)
(* one fail-open invoke: a request that has not ended can take a step, every *)
(* step of a request adds a call to its trace, and the trace is bounded.     *)

RequestStep(r) ==
    \/ Admit(r) \/ RouteAttempt(r) \/ InvokeSuccess(r) \/ InvokeFailure(r)
    \/ FailOpenSuccess(r) \/ FailOpenFailure(r)

C10_Bounded ==
    \A r \in Requests :
        /\ Cardinality(RouteCalls(r)) <= 3
        /\ Cardinality(LoopInvokes(r)) <= 3
        /\ Cardinality(FailOpenInvokes(r)) <= 1
        /\ Cardinality(LoopInvokes(r)) + Cardinality(FailOpenInvokes(r)) <= 3 + 1
        /\ Len(trace[r]) <= 2 + 3 * 3 + 3
        /\ pc[r] # "done" => ENABLED RequestStep(r)
        /\ pc[r] = "done" <=> result[r].kind \in {"return", "raise"}

C10_EveryStepAdvances ==
    \A r \in Requests :
        <<pc[r], attempt[r], failed_providers[r], last_exception[r], model_def[r],
          result[r], trace[r]>>' #
        <<pc[r], attempt[r], failed_providers[r], last_exception[r], model_def[r],
          result[r], trace[r]>>
            => Len(trace'[r]) > Len(trace[r])

\* C10: the calls of a request stay within the bounds, a request that has not
\* ended can always take a step, and every step of a request adds a call.
C10_Terminates == []C10_Bounded /\ [][C10_EveryStepAdvances]_vars

\* Three Router calls, three invokes in the loop and the fail-open invoke.
C10_Witness ==
    \E r \in Requests :
        /\ pc[r] = "done"
        /\ Cardinality(RouteCalls(r)) = 3
        /\ Cardinality(LoopInvokes(r)) + Cardinality(FailOpenInvokes(r)) = 4

---------------------------------------------------------------------------
(* C11: inside the retry loop of one request, once an invoke on a model of   *)
(* provider P failed with a retriable error, every later Router call of the  *)
(* request receives an exclusion set containing P and no later loop attempt  *)
(* invokes a model of P; and when a Router call is made while some model of  *)
(* a provider outside the exclusion set is statically healthy, not cooling   *)
(* down and at the target tier, the request invokes a model next, of a       *)
(* provider outside the exclusion set.                                       *)

\* The tier the Router targets for a request of the executor: its contexts
\* have complexity 0.1 or 0.9, which no budget answer moves.
C11_TargetTier(r) ==
    IF routing_context[r].complexity >= 8000
       \/ routing_context[r].domain = "safety_critical"
    THEN "reasoning" ELSE "fast"

\* The models another healthy provider offers to request r at the target tier.
C11_Offered(r) ==
    {m \in Range(registry) :
        /\ m.is_healthy
        /\ m.provider \notin failed_providers[r]
        /\ ~(m.provider \in DOMAIN cooldown_until /\ now < cooldown_until[m.provider])
        /\ m.tier = C11_TargetTier(r)}

C11_NoReuseOfFailedProvider ==
    \A r \in Requests : \A i \in LoopInvokes(r) :
        trace[r][i].res \in {"RateLimitError", "ServiceUnavailableError",
                             "APIConnectionError"} =>
            /\ \A j \in LoopInvokes(r) :
                  j > i => trace[r][j].provider # trace[r][i].provider
            /\ \A j \in RouteCalls(r) :
                  j > i => trace[r][i].provider \in trace[r][j].excluded
            /\ (registry = <<ModelA, ModelB>> /\ trace[r][i].model = "a") =>
                  \A j \in LoopInvokes(r) : j > i => trace[r][j].model = "b"

C11_RouteStep ==
    \A r \in Requests :
        (pc[r] = "route" /\ trace'[r] # trace[r] /\ C11_Offered(r) # {}) =>
            /\ pc'[r] = "invoke"
            /\ model_def'[r] \in Range(registry)
            /\ model_def'[r].provider \notin failed_providers[r]
            /\ model_def'[r].domain = NoDomain =>
                  /\ model_def'[r] \in C11_Offered(r)
                  /\ \A i \in 1..Len(registry) :
                        registry[i] \in C11_Offered(r) =>
                            \E j \in 1..i : registry[j] = model_def'[r]

\* C11: a provider whose model failed with a retriable error is excluded from
\* every later Router call and invoke of the request, and a Router call that
\* has a healthy model of another provider at the target tier is followed by
\* an invoke of such a model (the first in registry order when no domain model
\* is chosen).
C11_FailoverToNextProvider ==
    []C11_NoReuseOfFailedProvider /\ [][C11_RouteStep]_vars

\* Scenario 1: registry a/P1, b/P2; a fails with a retriable error, b answers;
\* one failure recorded for P1, the second Router call excludes exactly P1.
C11_Witness ==
    \E r \in Requests :
        /\ registry = <<ModelA, ModelB>>
        /\ result[r].kind = "return" /\ result[r].response.model = "b"
        /\ [i \in 1..Cardinality(LoopInvokes(r)) |->
               trace[r][CHOOSE k \in LoopInvokes(r) :
                   Cardinality({j \in LoopInvokes(r) : j <= k}) = i].model]
             = <<"a", "b">>
        /\ Cardinality(RecordedFailures(r)) = 1
        /\ \A i \in RecordedFailures(r) : trace[r][i].provider = "P1"
        /\ \E j \in RouteCalls(r) :
              trace[r][j].attempt = 2 /\ trace[r][j].excluded = {"P1"}

---------------------------------------------------------------------------
(* Reading the calls made on the LoadBalancer *)

\* The record_failure instants of provider p since its last record_success,
\* oldest first.
RECURSIVE SinceSuccess(_)
SinceSuccess(h) ==
    IF h = <<>> \/ h[Len(h)] = Success THEN <<>>
    ELSE Append(SinceSuccess(SubSeq(h, 1, Len(h) - 1)), h[Len(h)])

FailuresOf(p) == SinceSuccess(history[p])

\* The number of failures of h that lie within the failure window ending at
\* its i-th failure, that failure included.
InWindowAt(h, i) ==
    Cardinality({j \in 1..i : h[i] - h[j] <= 60})

\* The failures of h that found more than three failures in their window.
Openings(h) == {i \in 1..Len(h) : InWindowAt(h, i) > 3}

LastOpening(h) == h[CHOOSE i \in Openings(h) : \A j \in Openings(h) : j <= i]

\* Thread t takes the last step of record_failure, of record_success, or the
\* step of is_provider_healthy that fixes the value returned.
FailureReturns(t) == thread[t].pc = "threshold" /\ thread'[t].pc = "idle"
SuccessReturns(t) == thread[t].pc = "clear_cooldown" /\ thread'[t].pc = "idle"
HealthAnswers(t) == thread[t].pc = "check" /\ thread'[t].pc = "return"

---------------------------------------------------------------------------
(* C12: the breaker of a provider opens only in a record_failure that finds  *)
(* strictly more than 3 failures in the failure window: a record_failure     *)
(* that finds 1, 2 or 3 leaves the cooldown as it was, one that finds more   *)
(* sets it, nothing else sets it, and is_provider_healthy answers true while *)
(* the provider has at most 3 failures and false right at the 4th.           *)

C12_FailureStep ==
    \A t \in Threads : FailureReturns(t) =>
        LET p == thread[t].provider
            h == FailuresOf(p)
        IN /\ InWindowAt(h, Len(h)) <= 3 => cooldown_until' = cooldown_until
           /\ InWindowAt(h, Len(h)) > 3 =>
                 p \in DOMAIN cooldown_until' /\ cooldown_until'[p] > thread[t].now

C12_OpeningStep ==
    \A p \in Providers :
        (p \in DOMAIN cooldown_until'
         /\ (p \notin DOMAIN cooldown_until \/ cooldown_until'[p] # cooldown_until[p])) =>
            \E t \in Threads :
                /\ FailureReturns(t) /\ thread[t].provider = p
                /\ InWindowAt(FailuresOf(p), Len(FailuresOf(p))) > 3

C12_HealthStep ==
    \A t \in Threads : HealthAnswers(t) =>
        LET h == FailuresOf(thread[t].provider)
        IN /\ Len(h) <= 3 => thread'[t].value = "True"
           /\ (Len(h) = 4 /\ h[4] - h[1] <= 60 /\ thread[t].now = h[4]) =>
                 thread'[t].value = "False"

\* C12: every step of the tracker opens a breaker only by a record_failure
\* with more than FAILURE_THRESHOLD (3) failures in its window, and up to the
\* third failure is_provider_healthy is true, at the fourth it is false.
C12_OpensAboveThresholdOnly ==
    [][C12_FailureStep /\ C12_OpeningStep /\ C12_HealthStep]_vars

\* is_provider_healthy answered false at the instant of the 4th failure.
C12_Witness ==
    \E t \in Threads :
        /\ thread[t].pc = "return" /\ thread[t].value = "False"
        /\ thread[t].provider = "P1" /\ thread[t].now = 0
        /\ history["P1"] = <<0, 0, 0, 0>>

\* is_provider_healthy answered true after the 3rd failure.
C12_WitnessClosed ==
    \E t \in Threads :
        /\ thread[t].pc = "return" /\ thread[t].value = "True"
        /\ thread[t].provider = "P2" /\ thread[t].now = 0
        /\ history["P2"] = <<0, 0>>

---------------------------------------------------------------------------
(* C13: once a record_failure of a provider found more than 3 failures in    *)
(* its window, is_provider_healthy answers false at every instant less than  *)
(* 300 s after the last such failure and true from 300 s after it on; a      *)
(* record_success in between makes it answer true at once.                   *)

C13_HealthStep ==
    \A t \in Threads : HealthAnswers(t) =>
        LET h == FailuresOf(thread[t].provider)
            cooling == /\ Openings(h) # {}
                       /\ thread[t].now < LastOpening(h) + 300
        IN thread'[t].value = IF cooling THEN "False" ELSE "True"

\* C13: every answer of is_provider_healthy is false exactly while fewer than
\* COOLDOWN (300) seconds have passed since the provider's last failure that
\* exceeded the threshold, no record_success having come after that failure.
C13_UnhealthyForCooldown == [][C13_HealthStep]_vars

\* The breaker opened at 0 and is_provider_healthy answered true at 300.
C13_Witness ==
    \E t \in Threads :
        /\ thread[t].pc = "return" /\ thread[t].value = "True"
        /\ thread[t].provider = "P1" /\ thread[t].now = 300
        /\ history["P1"] = <<0, 0, 0, 0>>

\* The breaker opened at 0 and is_provider_healthy answered false at 299.
C13_WitnessLastInstant ==
    \E t \in Threads :
        /\ thread[t].pc = "return" /\ thread[t].value = "False"
        /\ thread[t].provider = "P1" /\ thread[t].now = 299
        /\ history["P1"] = <<0, 0, 0, 0>>

---------------------------------------------------------------------------
(* C14: whatever the tracker holds for a provider, record_success leaves the *)
(* provider with no failure timestamps and no cooldown, and an               *)
(* is_provider_healthy that comes next for the provider answers true.        *)

C14_SuccessStep ==
    \A t \in Threads : SuccessReturns(t) =>
        /\ failures'[thread[t].provider] = <<>>
        /\ thread[t].provider \notin DOMAIN cooldown_until'

C14_HealthStep ==
    \A t \in Threads : HealthAnswers(t) =>
        LET h == history[thread[t].provider]
        IN (h # <<>> /\ h[Len(h)] = Success) => thread'[t].value = "True"

\* C14: every record_success returns with the provider's failure timestamps
\* and cooldown cleared, and every is_provider_healthy made when the
\* provider's last recorded call is a record_success answers true.
C14_SuccessRestoresHealth == [][C14_SuccessStep /\ C14_HealthStep]_vars

\* The breaker of P1 was open (4 failures at 0) when record_success came, and
\* is_provider_healthy answered true at the same instant.
C14_Witness ==
    \E t \in Threads :
        /\ thread[t].pc = "return" /\ thread[t].value = "True"
        /\ thread[t].provider = "P1" /\ thread[t].now = 0
        /\ history["P1"] = <<0, 0, 0, 0, Success>>
        /\ failures["P1"] = <<>> /\ "P1" \notin DOMAIN cooldown_until

---------------------------------------------------------------------------
(* C15: only the failures of the last 60 s count.  When record_failure       *)
(* returns, the timestamps kept for the provider are exactly its failures    *)
(* (since the last record_success) that lie within 60 s of the instant the   *)
(* call read; three failures followed more than 60 s later by a fourth do    *)
(* not open the breaker, and is_provider_healthy still answers true.         *)

C15_FailureStep ==
    \A t \in Threads : FailureReturns(t) =>
        LET p == thread[t].provider
            h == FailuresOf(p)
            InWindow(ts) == thread[t].now - ts <= 60
        IN /\ \A i \in 1..Len(failures'[p]) :
                 /\ failures'[p][i] <= thread[t].now
                 /\ thread[t].now - failures'[p][i] <= 60
           /\ failures'[p] = SelectSeq(h, InWindow)
           /\ h = <<0, 0, 0, 61>> => p \notin DOMAIN cooldown_until'

C15_HealthStep ==
    \A t \in Threads :
        (HealthAnswers(t) /\ FailuresOf(thread[t].provider) = <<0, 0, 0, 61>>) =>
            thread'[t].value = "True"

\* C15: every record_failure returns with exactly the provider's failures of
\* the last FAILURE_WINDOW (60) seconds retained, and FAILURE_THRESHOLD
\* failures followed more than FAILURE_WINDOW later by one more leave the
\* provider healthy.
C15_OnlyWindowCounts == [][C15_FailureStep /\ C15_HealthStep]_vars

\* Three failures at 0, a fourth at 61: one timestamp kept, breaker closed.
C15_Witness ==
    \E t \in Threads :
        /\ thread[t].pc = "return" /\ thread[t].value = "True"
        /\ thread[t].provider = "P1" /\ thread[t].now = 61
        /\ history["P1"] = <<0, 0, 0, 61>>
        /\ failures["P1"] = <<61>>
        /\ "P1" \notin DOMAIN cooldown_until

---------------------------------------------------------------------------
(* C16: record_failure, record_success and is_provider_healthy are atomic.   *)
(* Whenever no thread is inside one of them, the tracker holds what the      *)
(* calls made so far leave when run one after another in the order in which  *)
(* they took the lock, and every is_provider_healthy answers as it does in   *)
(* that order; no failure is lost, so N record_failure calls of one instant  *)
(* leave N timestamps and an open breaker when N > 3.                        *)

\* No thread is between taking the lock and releasing it.
Quiescent == \A t \in Threads : thread[t].pc \in {"idle", "waiting", "return"}

C16_SequentialOutcome ==
    Quiescent =>
        /\ failures = sequential.failures
        /\ cooldown_until = sequential.cooldown_until
        /\ \A p \in Providers :
              LET h == FailuresOf(p)
                  Kept(ts) == h[Len(h)] - ts <= 60
              IN /\ failures[p] = SelectSeq(h, Kept)
                 /\ (now = 0 /\ Len(h) > 3) =>
                       /\ Len(failures[p]) = Len(h)
                       /\ p \in DOMAIN cooldown_until /\ cooldown_until[p] = 300

C16_HealthStep ==
    \A t \in Threads : HealthAnswers(t) =>
        LET p == thread[t].provider
            cooling == /\ p \in DOMAIN sequential.cooldown_until
                       /\ thread[t].now < sequential.cooldown_until[p]
        IN thread'[t].value = IF cooling THEN "False" ELSE "True"

\* C16: under every interleaving of the threads' calls the tracker ends up as
\* after the same calls run one at a time in lock order, every health answer
\* is the one of that order, and no recorded failure is lost.
C16_CallsAreAtomic == []C16_SequentialOutcome /\ [][C16_HealthStep]_vars

\* Four record_failure("P1") calls were in progress together at instant 0:
\* the fourth thread, which starts only while the other three are in a call,
\* counts four timestamps.
C16_Witness ==
    /\ thread["T4"].pc = "threshold" /\ thread["T4"].count = 4
    /\ thread["T4"].provider = "P1"
    /\ history["P1"] = <<0, 0, 0, 0>>
    /\ failures["P1"] = <<0, 0, 0, 0>>
    /\ now = 0

\* The four calls returned: four timestamps, breaker open until 300.
C16_WitnessDone ==
    /\ \A t \in Threads : thread[t].pc = "idle"
    /\ ncalls = 4
    /\ history["P1"] = <<0, 0, 0, 0>>
    /\ failures["P1"] = <<0, 0, 0, 0>>
    /\ cooldown_until = [p \in {"P1"} |-> 300]
    /\ now = 0


---------------------------------------------------------------------------
(* C17 *)

\* The provider is in cooldown in the tracker the call found.
CoolingAtCall(p) ==
    /\ p \in DOMAIN route_call.cooldown_until
    /\ route_call.now < route_call.cooldown_until[p]

\* C17: every model Router.route returns is a registered model whose static
\* is_healthy flag is true, whose provider is not in the excluded list of
\* that call, and whose provider the LoadBalancer reports healthy at the
\* time of the call.
C17_ReturnedModelIsHealthy ==
    route_call.model # NoModel =>
        /\ route_call.model \in Range(registry)
        /\ route_call.model.is_healthy
        /\ route_call.model.provider \notin route_call.excluded
        /\ ~CoolingAtCall(route_call.model.provider)

\* route passed over a statically unhealthy model and a model of a cooling
\* provider and returned the third FAST model.
C17_Witness ==
    /\ registry = <<ModelU, ModelA, ModelB, ModelS, ModelS2, ModelG>>
    /\ route_call.excluded = {}
    /\ CoolingAtCall("P1")
    /\ route_call.model = ModelB

\* route passed over the model of an excluded provider.
C17_WitnessExcluded ==
    /\ registry = <<ModelU, ModelA, ModelB, ModelS, ModelS2, ModelG>>
    /\ route_call.excluded = {"P1"}
    /\ ~CoolingAtCall("P1")
    /\ route_call.model = ModelS2

---------------------------------------------------------------------------
(* C18 *)

\* A call was made and its budget query returned at least 0.10.
AmpleBudgetCall ==
    /\ route_call # NoRouteCall
    /\ ~route_call.budget.raised /\ route_call.budget.value >= 1000

\* The domain of the call is safety_critical (domains compare without
\* regard to letter case).
SafetyCriticalCall == route_call.context.domain \in {"safety_critical", "Safety_Critical"}

\* The baseline tier the thresholds 0.8 and 0.4 prescribe for the call.
PrescribedBaseline ==
    IF route_call.context.complexity >= 8000 \/ SafetyCriticalCall THEN "reasoning"
    ELSE IF route_call.context.complexity >= 4000 THEN "smart"
    ELSE "fast"

\* C18: the baseline tier of a call is REASONING if complexity >= 0.8 or the
\* domain is safety_critical, else SMART if complexity >= 0.4, else FAST; so
\* 0.4 and 0.7999 give SMART, 0.8 gives REASONING, anything below 0.4 FAST.
\* With an ample budget, a model returned by generic selection (a model
\* without a domain tag) is of that tier.
C18_BaselineTier ==
    route_call # NoRouteCall =>
        /\ route_call.baseline = PrescribedBaseline
        /\ (~SafetyCriticalCall /\ route_call.context.complexity \in {4000, 7999})
               => route_call.baseline = TIER_2_SMART
        /\ (route_call.context.complexity = 8000) => route_call.baseline = TIER_3_REASONING
        /\ (~SafetyCriticalCall /\ route_call.context.complexity < 4000)
               => route_call.baseline = TIER_1_FAST
        /\ (AmpleBudgetCall /\ route_call.model # NoModel
              /\ route_call.model.domain = NoDomain)
               => route_call.model.tier = route_call.baseline

\* Complexity exactly 0.8 without a domain: the REASONING model is returned.
C18_Witness ==
    /\ AmpleBudgetCall
    /\ route_call.context = RoutingContext(8000, NoDomain)
    /\ route_call.baseline = TIER_3_REASONING
    /\ route_call.model = ModelG

\* Complexity 0.7999 without a domain: a SMART model is returned.
C18_WitnessSmart ==
    /\ AmpleBudgetCall
    /\ route_call.context = RoutingContext(7999, NoDomain)
    /\ route_call.model = ModelS

\* Complexity 0 with the domain safety_critical: the REASONING model.
C18_WitnessSafetyCritical ==
    /\ AmpleBudgetCall
    /\ route_call.context = RoutingContext(0, "safety_critical")
    /\ route_call.model = ModelG

---------------------------------------------------------------------------
(* C19 *)

\* The budget query of the call returned a fraction below 0.10.
LowBudgetCall ==
    /\ route_call # NoRouteCall
    /\ ~route_call.budget.raised /\ route_call.budget.value < 1000

C19_WitnessBoundary ==
    /\ registry = <<ModelA, ModelS, ModelG>>
    /\ route_call.context = RoutingContext(4000, NoDomain)
    /\ route_call.budget = BudgetAnswer(FALSE, 1000)
    /\ route_call.model = ModelS

\* A REASONING baseline with an empty budget: the REASONING model.
C19_WitnessReasoning ==
    /\ route_call.context = RoutingContext(8000, NoDomain)
    /\ route_call.budget = BudgetAnswer(FALSE, 0)
    /\ route_call.model = ModelG

---------------------------------------------------------------------------
(* C20 *)

\* The budget query of the call raised.
FailedBudgetCall == route_call # NoRouteCall /\ route_call.budget.raised

\* What the same call returns when the budget query answers 1.0.
WithAmpleBudget ==
    Route(registry, route_call.context, route_call.excluded,
          BudgetAnswer(FALSE, 10000), route_call.cooldown_until, route_call.now)

\* C20: when the remaining-budget query raises, Router.route does not fail
\* because of it: the target tier stays the baseline tier, and the call
\* returns the model (or fails for want of a healthy model) exactly as the
\* same call with an ample budget does.
C20_BudgetQueryFailsOpen ==
    FailedBudgetCall =>
        /\ route_call.target_tier = route_call.baseline
        /\ route_call.model = WithAmpleBudget

\* The budget query raised on a SMART baseline: the SMART model is returned,
\* not the FAST model economy mode would pick.
C20_Witness ==
    /\ FailedBudgetCall
    /\ registry = <<ModelA, ModelS, ModelG>>
    /\ route_call.context = RoutingContext(4000, NoDomain)
    /\ route_call.baseline = TIER_2_SMART
    /\ route_call.model = ModelS

---------------------------------------------------------------------------
(* C21 *)

\* Two domain names are the same name up to letter case.
SameDomain(a, b) ==
    \/ a = b
    \/ {a, b} = {"medical", "Medical"}
    \/ {a, b} = {"safety_critical", "Safety_Critical"}

\* The model passes the three filters of the call: static health, exclusion
\* and the LoadBalancer.
PassesFilters(m) ==
    /\ m.is_healthy
    /\ m.provider \notin route_call.excluded
    /\ ~CoolingAtCall(m.provider)

\* The registered models of the call's domain that pass the three filters,
\* in registry order.
QualifiedDomainModel(m) ==
    /\ m.domain # NoDomain
    /\ SameDomain(m.domain, route_call.context.domain)
    /\ PassesFilters(m)

QualifiedDomainModels ==
    IF route_call.context.domain = NoDomain THEN <<>>
    ELSE SelectSeq(registry, QualifiedDomainModel)

AtTargetTier(m) == m.tier = route_call.target_tier

\* Some generic model at the target tier passes the three filters.
GenericAvailable ==
    \E m \in Range(registry) :
        m.domain = NoDomain /\ AtTargetTier(m) /\ PassesFilters(m)

C21_WitnessTierMatch ==
    /\ registry = <<ModelMF, ModelM, ModelA, ModelS2, ModelG>>
    /\ route_call.context = RoutingContext(8000, "medical")
    /\ Len(QualifiedDomainModels) = 2
    /\ GenericAvailable
    /\ route_call.model = ModelM

---------------------------------------------------------------------------
(* C22 *)

\* The call returned a model for a safety_critical context.
SafetyCriticalAnswer ==
    route_call # NoRouteCall /\ SafetyCriticalCall /\ route_call.model # NoModel

C22_WitnessSoftFallback ==
    /\ SafetyCriticalAnswer
    /\ registry = <<ModelSC, ModelA, ModelG>>
    /\ GenericAvailable
    /\ route_call.model = ModelSC

---------------------------------------------------------------------------
(* C23 *)

\* The registered models at the target tier that pass the three filters, in
\* registry order.
QualifiedAtTargetTier(m) == AtTargetTier(m) /\ PassesFilters(m)

QualifiedTierModels == SelectSeq(registry, QualifiedAtTargetTier)

C23_WitnessFirstInOrder ==
    /\ registry = <<ModelU, ModelA, ModelB, ModelS, ModelS2, ModelG>>
    /\ route_call.context = RoutingContext(0, "legal")
    /\ route_call.excluded = {}
    /\ ~CoolingAtCall("P1")
    /\ route_call.model = ModelA

---------------------------------------------------------------------------
(* C24 *)

\* The definition most recently registered under the id since the registry
\* was last cleared, NoModel standing for none.
LatestOf(i) == IF i \in DOMAIN latest THEN latest[i] ELSE NoModel

\* Thread t's get_model reads the registry in this step.
GetReads(t) ==
    /\ reg_thread[t].op = "get_model"
    /\ reg_thread[t].at = "call" /\ reg_thread'[t].at = "return"

\* Thread t's register_model (its own or one made by configure) writes the
\* registry in this step.
RegisterWrites(t) ==
    /\ reg_thread[t].op \in {"register_model", "configure"}
    /\ reg_thread[t].at = "locked" /\ reg_thread'[t].at # "locked"

EntriesOtherThan(reg, i) == {m \in Range(reg) : m.id # i}

C24_OneEntryPerId ==
    /\ \A i, j \in 1..Len(registry) : registry[i].id = registry[j].id => i = j
    /\ {m.id : m \in Range(registry)} = DOMAIN latest

C24_GetStep ==
    \A t \in Threads :
        GetReads(t) => reg_thread'[t].value = LatestOf(reg_thread[t].id)

C24_RegisterStep ==
    \A t \in Threads :
        RegisterWrites(t) =>
            LET model == Head(reg_thread[t].todo)
            IN /\ model \in Range(registry')
               /\ EntriesOtherThan(registry', model.id) = EntriesOtherThan(registry, model.id)

\* C24: after any sequence of register calls, get(id) returns the definition
\* most recently registered under that id (None if there is none), the
\* registry holds one entry per distinct id, and registering id x leaves the
\* entry of every other id as it was.
C24_RegisterIsUpsert ==
    []C24_OneEntryPerId /\ [][C24_GetStep /\ C24_RegisterStep]_vars

\* get("a") returned the second definition registered under "a"; the other
\* entry is as it was.
C24_Witness ==
    /\ reg_thread["T1"].op = "get_model" /\ reg_thread["T1"].at = "return"
    /\ reg_thread["T1"].id = "a"
    /\ reg_thread["T1"].value = ModelA3
    /\ registry = <<ModelA3, ModelB>>

---------------------------------------------------------------------------
(* C25 *)

\* Thread t's configure has registered the whole snapshot and returns.
ConfigureReturns(t) ==
    reg_thread[t].op = "configure" /\ reg_thread[t].at = "return"

\* Thread t's clear empties the registry in this step.
ClearWrites(t) ==
    /\ reg_thread[t].op = "clear"
    /\ reg_thread[t].at = "locked" /\ reg_thread'[t].at = "return"

RegisteredIds(reg) == {m.id : m \in Range(reg)}

\* configure, run alone on the registry it found (base): every model of the
\* snapshot is registered, every model found whose id is not in the snapshot
\* is kept, and a registry that already held the snapshot is unchanged.
C25_ConfigureOutcome ==
    \A t \in Threads :
        ConfigureReturns(t) =>
            LET snapshot == reg_thread[t].snapshot
                base == reg_thread[t].base
            IN /\ \A m \in Range(snapshot) : m \in Range(registry)
               /\ \A m \in Range(base) :
                     m.id \notin RegisteredIds(snapshot) => m \in Range(registry)
               /\ RegisteredIds(registry) = RegisteredIds(base) \cup RegisteredIds(snapshot)
               /\ Range(snapshot) \subseteq Range(base) => registry = base

C25_OnlyClearRemoves ==
    \/ RegisteredIds(registry) \subseteq RegisteredIds(registry')
    \/ \E t \in Threads : ClearWrites(t)

C25_WitnessRepeated ==
    /\ ConfigureReturns("T1")
    /\ reg_thread["T1"].snapshot = <<ModelA3, ModelG>>
    /\ reg_thread["T1"].base = <<ModelA3, ModelG>>
    /\ registry = <<ModelA3, ModelG>>

---------------------------------------------------------------------------
(* C26 *)

\* The place of an id in the order of first insertion.
PlaceOf(i) == CHOOSE k \in 1..Len(inserted) : inserted[k] = i

\* Thread t's list_models returns.
ListReturns(t) == reg_thread[t].op = "list_models" /\ reg_thread[t].at = "return"

\* The models of the sequence are in the order of the first insertion of
\* their ids.
InInsertionOrder(models) ==
    \A i, j \in 1..Len(models) :
        i < j => PlaceOf(models[i].id) < PlaceOf(models[j].id)

\* The first FAST model of the registry in the order of first insertion.
FirstInsertedFast ==
    CHOOSE m \in Range(registry) :
        /\ m.tier = "fast"
        /\ \A x \in Range(registry) : x.tier = "fast" => PlaceOf(m.id) <= PlaceOf(x.id)

\* C26: list() returns the registered models in the order in which their
\* ids were first inserted, and a tier filter returns the models of that
\* tier in the same relative order.  This order is the Router's "first": for
\* a FAST target with every provider healthy and none excluded, route
\* returns the FAST model whose id was inserted first.
C26_ListInInsertionOrder ==
    /\ \A t \in Threads :
          ListReturns(t) =>
              LET value == reg_thread[t].value
                  tier == reg_thread[t].tier
              IN /\ InInsertionOrder(value)
                 /\ \A i, j \in 1..Len(value) : value[i] = value[j] => i = j
                 /\ Range(value) =
                       {m \in Range(registry) : tier = "None" \/ m.tier = tier}
                 /\ tier = "None" => IdsOf(value) = inserted
    /\ (\E m \in Range(registry) : m.tier = "fast") =>
          Route(registry, RoutingContext(0, NoDomain), {}, BudgetAnswer(FALSE, 10000),
                NoCooldown, 0) = FirstInsertedFast

\* "a" was registered again after "b": list() still returns it first.
C26_Witness ==
    /\ ListReturns("T1")
    /\ reg_thread["T1"].tier = "None"
    /\ reg_thread["T1"].value = <<ModelA3, ModelB>>

\* The tier filter keeps the relative order: "generic" is left out.
C26_WitnessTier ==
    /\ ListReturns("T1")
    /\ reg_thread["T1"].tier = TIER_1_FAST
    /\ registry = <<ModelA, ModelB, ModelG>>
    /\ reg_thread["T1"].value = <<ModelA, ModelB>>

---------------------------------------------------------------------------
(* C27 *)

\* What list_models(tier) returns on the registry content reg.
ListedFrom(reg, tier) ==
    LET Wanted(m) == tier = "None" \/ m.tier = tier
    IN SelectSeq(reg, Wanted)

\* C27: under any interleaving of concurrent register, get, list and clear
\* calls no registration is lost: the registry holds, once each, exactly the
\* ids registered since it was last cleared, each with the definition
\* registered last.  Each list() result is the listing of the content the
\* registry had at one instant during the call, never a mix of two contents.
C27_RegistryCallsAreAtomic ==
    /\ IdsOf(registry) = inserted
    /\ \A m \in Range(registry) : m = LatestOf(m.id)
    /\ \A t \in Threads :
          ListReturns(t) =>
              \E reg \in reg_thread[t].window :
                  reg_thread[t].value = ListedFrom(reg, reg_thread[t].tier)

\* Two register_model calls that began on the same empty registry have both
\* written: both ids are there.
C27_Witness ==
    /\ reg_thread["T1"].op = "register_model" /\ reg_thread["T1"].at = "return"
    /\ reg_thread["T2"].op = "register_model" /\ reg_thread["T2"].at = "return"
    /\ reg_thread["T1"].base = <<>> /\ reg_thread["T2"].base = <<>>
    /\ Len(registry) = 2

\* A list() returned while the other thread wrote the registry: the result
\* is the content before the write, not the present one.
C27_WitnessSnapshot ==
    /\ ListReturns("T1")
    /\ Cardinality(reg_thread["T1"].window) = 2
    /\ reg_thread["T1"].tier = "None"
    /\ reg_thread["T1"].value # registry

---------------------------------------------------------------------------
(* C28 *)

\* C28: a request cancelled while an invoker call of the retry loop is in
\* progress makes no further Router or invoker call: the interrupted invoke
\* is the last call the request ever makes, the remaining attempts are
\* skipped, fail-open does not run, nothing is recorded in the Health
\* Tracker for it, and the request ends with the cancellation.
C28_CancelledRequestStops ==
    \A r \in Requests : \A i \in LoopInvokes(r) :
        trace[r][i].res = "CancelledError" =>
            /\ i = Len(trace[r])
            /\ FailOpenInvokes(r) = {}
            /\ pc[r] = "done"
            /\ result[r].kind = "raise"
            /\ result[r].error.type = "CancelledError"

\* The first attempt failed with a retriable error and the second was
\* cancelled: the third attempt and fail-open were skipped.
C28_Witness ==
    \E r \in Requests :
        /\ max_retries = 3
        /\ Len(trace[r]) > 0
        /\ Cardinality(LoopInvokes(r)) = 2
        /\ Cardinality(RouteCalls(r)) = 2
        /\ \E i \in LoopInvokes(r) : trace[r][i].res = "RateLimitError"
        /\ trace[r][Len(trace[r])].op = "invoke"
        /\ trace[r][Len(trace[r])].res = "CancelledError"
        /\ trace[r][Len(trace[r])].attempt = 2
        /\ pc[r] = "done"

---------------------------------------------------------------------------
(* C29 *)

\* C29: an invoker timeout is handled as an availability error: after a
\* loop invoke that timed out, record_failure is called for the provider of
\* the chosen model and that provider is in the request's exclusion set,
\* exactly as after a rate-limit, service-unavailable or connection error.
C29_Original ==
    \A r \in Requests : \A i \in LoopInvokes(r) :
        trace[r][i].res = "Timeout" =>
            /\ i + 1 <= Len(trace[r])
            /\ trace[r][i + 1].op = "record_failure"
            /\ trace[r][i + 1].provider = trace[r][i].provider
            /\ trace[r][i].provider \in failed_providers[r]

\* What the code does on a timeout: nothing is recorded, the provider is not
\* excluded, and the next attempt is routed with the same exclusion set.
C29_TimeoutIsNotRetriable ==
    \A r \in Requests : \A i \in LoopInvokes(r) :
        trace[r][i].res = "Timeout" =>
            /\ i + 1 <= Len(trace[r]) => trace[r][i + 1].op # "record_failure"
            /\ (i + 1 <= Len(trace[r]) /\ trace[r][i + 1].op = "route") =>
                  trace[r][i + 1].excluded = trace[r][i - 1].excluded

---------------------------------------------------------------------------
(* C30 *)

\* The words of the classified prompt, and whether word i is the given
\* keyword in some letter case.
ClassifiedWords == classify_call.text.words

WordIs(i, keyword) ==
    /\ i \in 1..Len(ClassifiedWords)
    /\ \/ ClassifiedWords[i] = keyword
       \/ <<ClassifiedWords[i], keyword>> \in {<<"IMMEDIATE", "immediate">>, <<"Dose", "dose">>}

\* The prompt contains a whole-word keyword of the safety_critical rule.
HasSafetyKeyword ==
    \E i \in 1..Len(ClassifiedWords) :
        \/ \E k \in {"hazard", "emergency", "danger", "immediate"} : WordIs(i, k)
        \/ WordIs(i, "adverse") /\ WordIs(i + 1, "event")

\* The prompt contains a whole-word keyword of the medical rule.
HasMedicalKeyword ==
    \E i \in 1..Len(ClassifiedWords) : \E k \in {"clinical", "dose"} : WordIs(i, k)

\* C30: the classifier assigns the domain of the first matching rule in the
\* order safety_critical, medical: a prompt with whole-word keywords of both
\* rules is safety_critical, a prompt matching only medical keywords is
\* medical, and a prompt matching none (the empty prompt included) has no
\* domain.
C30_FirstMatchingRule ==
    classify_call.context.domain =
        IF HasSafetyKeyword THEN "safety_critical"
        ELSE IF HasMedicalKeyword THEN "medical"
        ELSE NoDomain

\* A prompt with "clinical" before "adverse event" is safety_critical.
C30_Witness ==
    /\ classify_call.text.words = <<"clinical", "adverse", "event">>
    /\ classify_call.context.domain = "safety_critical"

\* Only a medical keyword, in capitals: medical.
C30_WitnessMedical ==
    /\ classify_call.text.words = <<"hello", "Dose">>
    /\ classify_call.context.domain = "medical"

\* "hazardous" is not the whole word "hazard", and "adverse" without "event"
\* is no keyword: no domain.
C30_WitnessNone ==
    /\ classify_call.text.words = <<"hazardous", "adverse", "hello">>
    /\ classify_call.context.domain = NoDomain

---------------------------------------------------------------------------
(* C31 *)

\* The instances the threads' calls have returned.
ReturnedInstances == {construct[t].returned : t \in Threads} \ {0}

\* The LoadBalancer and the ModelRegistry are created at most once, at most
\* one engine object is made, and every call that returned gave that object.
C31_CreatedOnce ==
    /\ engine_cls.instances <= 1
    /\ engine_cls.load_balancers <= 1
    /\ engine_cls.registries <= 1
    /\ Cardinality(ReturnedInstances) <= 1

\* C31, as claimed: under any interleaving of concurrent first-time
\* ArbitrageEngine() constructions every caller obtains the same instance,
\* no construction raises, and the engine's load balancer and registry are
\* created exactly once (a later construction or __init__ call never
\* replaces them).
C31_Original ==
    /\ C31_CreatedOnce
    /\ \A t \in Threads : construct[t].raised = "None"

---------------------------------------------------------------------------
(* C32 *)

\* A step that is a call of Router.route.
RouteCallStep == route_call = NoRouteCall /\ route_call' # NoRouteCall

\* The cooldowns that a call at the instant of route_call found expired.
ExpiredAtCall ==
    {p \in DOMAIN route_call.cooldown_until : route_call.cooldown_until[p] <= route_call.now}

\* C32, as claimed: Router.route has no side effect on shared state: the
\* Registry contents and every Health Tracker entry (failure timestamps and
\* cooldown_until of every provider) are the same after any route call as
\* before it, whether the call returns a model or fails.
C32_Original ==
    [][RouteCallStep =>
          /\ registry' = registry
          /\ failures' = failures
          /\ cooldown_until' = cooldown_until]_vars

\* C32, amended: a route call, whether it returns a model or fails, leaves
\* the Registry contents and every provider's failure timestamps as they
\* were, and leaves cooldown_until of every provider as it was except that
\* it may remove an entry that has expired (cooldown_until <= now); an entry
\* that is still in the future is never changed or removed, and none is
\* added.
C32_RouteOnlyClosesExpired ==
    [][RouteCallStep =>
          /\ registry' = registry
          /\ failures' = failures
          /\ DOMAIN cooldown_until' \subseteq DOMAIN cooldown_until
          /\ \A p \in DOMAIN cooldown_until :
                IF p \in DOMAIN cooldown_until'
                THEN cooldown_until'[p] = cooldown_until[p]
                ELSE cooldown_until[p] <= now]_vars

\* A route call that returned a model has removed an expired cooldown.
C32_Witness ==
    /\ route_call # NoRouteCall
    /\ route_call.model # NoModel
    /\ ExpiredAtCall # {}
    /\ cooldown_until # route_call.cooldown_until

\* A route call that failed because every candidate is cooling down has
\* left the cooldowns as they were.
C32_WitnessFailed ==
    /\ route_call # NoRouteCall
    /\ route_call.model = NoModel
    /\ route_call.cooldown_until # NoCooldown
    /\ cooldown_until = route_call.cooldown_until

\* A route call made while a cooldown is running leaves it in place.
C32_WitnessRunning ==
    /\ route_call # NoRouteCall
    /\ \E p \in DOMAIN route_call.cooldown_until :
          /\ route_call.now < route_call.cooldown_until[p]
          /\ p \in DOMAIN cooldown_until

---------------------------------------------------------------------------
(* C33 *)

RecordedSuccesses(r) == {i \in Indices(r) : trace[r][i].op = "record_success"}

\* In the trace of every request: a loop invoke that returned is followed at
\* once by record_success for its provider in the same attempt; every
\* record_success follows such an invoke; there is at most one, and exactly
\* one when the request returned a response of the loop; the accounting calls
\* of the loop come after it.
C33_SuccessRecordedInTrace ==
    \A r \in Requests :
        /\ \A i \in LoopInvokes(r) : trace[r][i].res = "ok" =>
              /\ i + 1 \in Indices(r)
              /\ trace[r][i + 1] =
                    HealthEvent("record_success", trace[r][i].attempt, trace[r][i].provider)
        /\ \A j \in RecordedSuccesses(r) :
              /\ j - 1 \in LoopInvokes(r)
              /\ trace[r][j - 1].res = "ok"
              /\ trace[r][j - 1].provider = trace[r][j].provider
              /\ trace[r][j - 1].attempt = trace[r][j].attempt
              /\ \A k \in Indices(r) :
                    (IsAccounting(trace[r][k]) /\ trace[r][k].phase = "loop") => k > j
        /\ Cardinality(RecordedSuccesses(r)) <= 1
        /\ (result[r].kind = "return" /\ FailOpenInvokes(r) = {}) =>
              Cardinality(RecordedSuccesses(r)) = 1

\* The step in which a request records a success leaves the provider with no
\* failure timestamps and no cooldown, and the other providers as they were.
C33_SuccessStep ==
    \A r \in Requests :
        (RecordedSuccesses(r) = {} /\ RecordedSuccesses(r)' # {}) =>
            LET p == model_def[r].provider
            IN /\ failures'[p] = <<>>
               /\ p \notin DOMAIN cooldown_until'
               /\ \A q \in Providers \ {p} :
                     /\ failures'[q] = failures[q]
                     /\ (q \in DOMAIN cooldown_until') = (q \in DOMAIN cooldown_until)

\* C33: every response returned from the retry loop is preceded, in the same
\* attempt, by exactly one record_success for the provider of the model that
\* produced it, before any Audit or deduction call, so that provider has no
\* recorded failures and no cooldown afterwards; record_success is never
\* called for any other provider or after a failed invoke.
C33_SuccessRecordedOnce ==
    []C33_SuccessRecordedInTrace /\ [][C33_SuccessStep]_vars

\* A request answered by P2 on its second attempt, after P1 failed: P2 is
\* clean and the failure of P1 stays recorded.
C33_Witness ==
    \E r \in Requests :
        /\ result[r].kind = "return"
        /\ \E j \in RecordedSuccesses(r) :
              /\ trace[r][j].provider = "P2"
              /\ trace[r][j].attempt = 2
        /\ failures["P2"] = <<>>
        /\ failures["P1"] # <<>>

\* A success of P1 after its cooldown expired cleared the failures that had
\* opened its breaker.
C33_WitnessCleared ==
    \E r \in Requests :
        /\ \E j \in RecordedSuccesses(r) : trace[r][j].provider = "P1"
        /\ failures["P1"] = <<>>
        /\ "P1" \notin DOMAIN cooldown_until
        /\ Len(failures["P2"]) > FAILURE_THRESHOLD

---------------------------------------------------------------------------
(* C34 *)

\* The breaker of q is open when q has a cooldown_until entry.
BreakerOpen(cd, q) == q \in DOMAIN cd

\* The cooldown_until entry of q differs between the two states of a step.
CooldownChanged(q) ==
    \/ BreakerOpen(cooldown_until, q) # BreakerOpen(cooldown_until', q)
    \/ /\ BreakerOpen(cooldown_until, q) /\ BreakerOpen(cooldown_until', q)
       /\ cooldown_until'[q] # cooldown_until[q]

\* The failures of q that lie in the window ending at instant t.
InWindowCount(q, t) ==
    Cardinality({i \in 1..Len(failures[q]) : t - failures[q][i] <= FAILURE_WINDOW_SECONDS})

\* C34: a provider's breaker changes from CLOSED to OPEN only inside a
\* record_failure call on it whose in-window count exceeds FAILURE_THRESHOLD,
\* and from OPEN to CLOSED only by record_success on it or by an
\* is_provider_healthy query on it made at or after cooldown_until; no other
\* operation, and no operation on another provider, changes its
\* cooldown_until.
C34_BreakerTransitions ==
    [][\A q \in Providers :
          CooldownChanged(q) =>
              \E t \in Threads :
                  /\ lock = t
                  /\ thread[t].provider = q
                  /\ IF BreakerOpen(cooldown_until', q)
                     THEN /\ thread[t].op = "record_failure"
                          /\ InWindowCount(q, thread[t].now) > FAILURE_THRESHOLD
                          /\ cooldown_until'[q] = thread[t].now + COOLDOWN_PERIOD_SECONDS
                     ELSE \/ thread[t].op = "record_success"
                          \/ /\ thread[t].op = "is_provider_healthy"
                             /\ thread[t].now >= cooldown_until[q]]_vars

\* The fourth failure of P1 in the window opened its breaker.
C34_Witness ==
    /\ BreakerOpen(cooldown_until, "P1")
    /\ Len(history["P1"]) = FAILURE_THRESHOLD + 1
    /\ \A i \in 1..Len(history["P1"]) : history["P1"][i] # Success

\* A query at the end of the cooldown closed the breaker of P1.
C34_WitnessQueryCloses ==
    /\ ~BreakerOpen(cooldown_until, "P1")
    /\ Len(failures["P1"]) > FAILURE_THRESHOLD
    /\ \E t \in Threads :
          /\ thread[t].pc = "return"
          /\ thread[t].provider = "P1"
          /\ thread[t].value = "True"

\* A success closed the breaker of P1 while its cooldown was running.
C34_WitnessSuccessCloses ==
    /\ ~BreakerOpen(cooldown_until, "P1")
    /\ now < COOLDOWN_PERIOD_SECONDS
    /\ Len(history["P1"]) = FAILURE_THRESHOLD + 2
    /\ history["P1"][FAILURE_THRESHOLD + 2] = Success
    /\ \A t \in Threads : thread[t].pc = "idle"

---------------------------------------------------------------------------
(* C35 *)

\* What is_provider_healthy(q) would return at instant t.
HealthyAt(cd, q, t) == ~(BreakerOpen(cd, q) /\ t < cd[q])

\* A step changes the failure timestamps, the cooldown or the health of q
\* only inside a call on q.
C35_OtherProvidersUntouched ==
    \A q \in Providers :
        (\/ failures'[q] # failures[q]
         \/ CooldownChanged(q)
         \/ HealthyAt(cooldown_until', q, now) # HealthyAt(cooldown_until, q, now)) =>
            \E t \in Threads : lock = t /\ thread[t].provider = q

\* is_provider_healthy returns True for a provider on which neither
\* record_failure nor record_success was ever called, and such a provider
\* has no failure timestamps and no cooldown.
C35_UnknownIsHealthy ==
    \A q \in Providers : history[q] = <<>> =>
        /\ failures[q] = <<>>
        /\ ~BreakerOpen(cooldown_until, q)
        /\ \A t \in Threads :
              (thread[t].pc = "return" /\ thread[t].provider = q) => thread[t].value = "True"

\* C35: health state is per provider: record_failure, record_success and
\* is_provider_healthy on provider p never change the failure timestamps,
\* cooldown or is_healthy result of any other provider q, and a provider for
\* which nothing was ever recorded is healthy.
C35_HealthIsPerProvider ==
    []C35_UnknownIsHealthy /\ [][C35_OtherProvidersUntouched]_vars

\* P1's breaker opened, then P2 recorded a success: P1 is still open.
C35_Witness ==
    /\ BreakerOpen(cooldown_until, "P1")
    /\ Len(failures["P1"]) > FAILURE_THRESHOLD
    /\ history["P2"] = <<Success>>
    /\ \A t \in Threads : thread[t].pc = "idle"

\* P2, never recorded, is reported healthy while P1's breaker is open.
C35_WitnessUnknown ==
    /\ BreakerOpen(cooldown_until, "P1")
    /\ history["P2"] = <<>>
    /\ \E t \in Threads :
          /\ thread[t].pc = "return"
          /\ thread[t].provider = "P2"
          /\ thread[t].value = "True"

---------------------------------------------------------------------------
(* C37 *)

\* The query of thread t finds the cooldown of its provider expired.
LazyCloses(t) ==
    /\ HealthAnswers(t)
    /\ BreakerOpen(cooldown_until, thread[t].provider)
    /\ thread[t].now >= cooldown_until[thread[t].provider]

\* The lazy close removes cooldown_until of the provider and nothing else.
C37_LazyCloseStep ==
    \A t \in Threads : LazyCloses(t) =>
        /\ failures' = failures
        /\ ~BreakerOpen(cooldown_until', thread[t].provider)
        /\ \A q \in Providers \ {thread[t].provider} : ~CooldownChanged(q)

\* A record_failure opens the breaker whenever the failures since the last
\* success that lie in its window, those recorded while the breaker was open
\* included, are more than FAILURE_THRESHOLD.
C37_FailureStep ==
    \A t \in Threads : FailureReturns(t) =>
        LET p == thread[t].provider
            h == FailuresOf(p)
        IN /\ thread[t].count = InWindowAt(h, Len(h))
           /\ BreakerOpen(cooldown_until', p) # BreakerOpen(cooldown_until, p) =>
                 thread[t].count > FAILURE_THRESHOLD

\* C37: the lazy close done by is_provider_healthy after the cooldown expired
\* removes only cooldown_until and leaves the provider's failure timestamps
\* unchanged, so failures recorded while the breaker was open that are still
\* inside the failure window keep counting toward the threshold at the next
\* record_failure.
C37_LazyCloseKeepsFailures ==
    [][C37_LazyCloseStep /\ C37_FailureStep]_vars

\* A query at 300 closed the breaker of P1; three failures recorded at 299
\* while it was open still count, and one new failure at 300 re-opened it.
C37_Witness ==
    /\ history["P1"] = <<0, 0, 0, 0, 299, 299, 299, 300>>
    /\ BreakerOpen(cooldown_until, "P1")
    /\ cooldown_until["P1"] = 300 + COOLDOWN_PERIOD_SECONDS
    /\ \E t \in Threads :
          /\ thread[t].pc = "return"
          /\ thread[t].provider = "P1"
          /\ thread[t].value = "True"

\* The breaker has just been closed by a query and the failures recorded
\* while it was open are still there.
C37_WitnessClosed ==
    /\ ~BreakerOpen(cooldown_until, "P1")
    /\ failures["P1"] = <<299, 299, 299>>
    /\ \E t \in Threads :
          /\ thread[t].pc = "return"
          /\ thread[t].provider = "P1"
          /\ thread[t].value = "True"

---------------------------------------------------------------------------
(* C36 *)

\* The providers on which a loop invoke of r failed with a retriable error.
OwnRetriableFailures(r) ==
    {trace[r][i].provider : i \in {j \in LoopInvokes(r) :
        trace[r][j].res \in {"RateLimitError", "ServiceUnavailableError", "APIConnectionError"}}}

\* The errors that the calls of r itself raised.
OwnErrors(r) ==
    {Err(trace[r][i].res, "", "invoker", trace[r][i].attempt) :
        i \in {j \in LoopInvokes(r) : trace[r][j].res # "ok"}}
    \cup {Err("RuntimeError", "No healthy models available", "router", trace[r][i].attempt) :
        i \in {j \in RouteCalls(r) : trace[r][j].res = "None"}}
    \cup {Err(trace[r][i].res, "", "fail_open", 0) :
        i \in {j \in FailOpenInvokes(r) : trace[r][j].res # "ok"}}

\* The exclusion set of a request holds exactly the providers that failed
\* in that request, and the error it raises or remembers is one of its own.
C36_OwnState ==
    \A r \in Requests :
        /\ failed_providers[r] = OwnRetriableFailures(r)
        /\ last_exception[r] # NoError => last_exception[r] \in OwnErrors(r)
        /\ result[r].kind = "raise" =>
              /\ result[r].error \in OwnErrors(r)
              /\ result[r].cause # NoError => result[r].cause \in OwnErrors(r)

\* The first model of the registry whose provider request r has not excluded
\* and whose breaker is not open at this instant.
FirstAvailable(r) ==
    LET avail == {i \in 1..Len(registry) :
                     /\ registry[i].provider \notin failed_providers[r]
                     /\ HealthyAt(cooldown_until, registry[i].provider, now)}
    IN IF avail = {} THEN NoModel
       ELSE registry[CHOOSE i \in avail : \A j \in avail : i <= j]

\* A step of one request leaves the locals of the other as they were, and a
\* Router call of a request returns the first model that the request itself
\* has not excluded and whose breaker is closed, whatever the other request
\* has excluded.
C36_Step ==
    \A r \in Requests :
        /\ trace'[r] = trace[r] =>
              /\ failed_providers'[r] = failed_providers[r]
              /\ last_exception'[r] = last_exception[r]
              /\ result'[r] = result[r]
              /\ model_def'[r] = model_def[r]
              /\ attempt'[r] = attempt[r]
        /\ (pc[r] = "route" /\ trace'[r] # trace[r]) =>
              IF FirstAvailable(r) = NoModel
              THEN pc'[r] # "invoke"
              ELSE pc'[r] = "invoke" /\ model_def'[r] = FirstAvailable(r)

\* C36: the exclusion set and last_error are private to one request: when R1
\* and R2 run concurrently on a shared client, a retriable failure of
\* provider P in R1 never puts P into R2's exclusion set, R2's Router calls
\* still select P unless P's breaker is open in the shared Health Tracker or
\* R2 excluded P itself, and the error R2 surfaces is never an error
\* observed only by R1.
C36_RequestStateIsPrivate ==
    []C36_OwnState /\ [][C36_Step]_vars

\* R1 has excluded P1 after a rate-limit error; R2, about to make its first
\* Router call, has excluded nothing and P1's breaker is closed.
C36_Witness ==
    /\ failed_providers["R1"] = {"P1"}
    /\ pc["R2"] = "route" /\ attempt["R2"] = 0
    /\ failed_providers["R2"] = {}
    /\ ~BreakerOpen(cooldown_until, "P1")
    /\ FirstAvailable("R2").provider = "P1"

\* The failure of P1 in R1 opened P1's breaker: the first Router call of R2,
\* which has excluded nothing, returned the model of P2.
C36_WitnessBreakerOpen ==
    /\ failed_providers["R1"] = {"P1"}
    /\ BreakerOpen(cooldown_until, "P1")
    /\ pc["R2"] = "invoke" /\ attempt["R2"] = 0
    /\ failed_providers["R2"] = {}
    /\ model_def["R2"].provider = "P2"

\* R1 saw rate-limit errors and then the Router's error, R2 bad-request
\* errors only; each raised the last error of its own loop.
C36_WitnessErrors ==
    /\ result["R1"].kind = "raise" /\ result["R1"].error.src = "router"
    /\ result["R2"].kind = "raise" /\ result["R2"].error.type = "BadRequestError"
    /\ \A i \in LoopInvokes("R2") : trace["R2"][i].res = "BadRequestError"
    /\ \A i \in LoopInvokes("R1") : trace["R1"][i].res = "RateLimitError"

---------------------------------------------------------------------------
(* C38 *)

\* The record_failure calls of r for provider p.
RecordedFailuresOf(r, p) == {i \in RecordedFailures(r) : trace[r][i].provider = p}

\* A request has called record_failure at most once per provider and at most
\* MAX_RETRIES times in all.
C38_AtMostOncePerProvider ==
    \A r \in Requests :
        /\ \A p \in Providers : Cardinality(RecordedFailuresOf(r, p)) <= 1
        /\ Cardinality(RecordedFailures(r)) <= MAX_RETRIES

\* A step adds at most one failure timestamp to a provider, and only for a
\* record_failure of the request on it; when a step opens the breaker of p,
\* p already had FAILURE_THRESHOLD failures in the window that the request
\* did not record; the fail-open invoke leaves the Health Tracker as it was.
C38_Step ==
    \A r \in Requests :
        /\ \A p \in Providers :
              /\ Len(failures'[p]) <= Len(failures[p]) + 1
              /\ Len(failures'[p]) > Len(failures[p]) =>
                    /\ RecordedFailuresOf(r, p) = {}
                    /\ RecordedFailuresOf(r, p)' # {}
              /\ (~BreakerOpen(cooldown_until, p) /\ BreakerOpen(cooldown_until', p)) =>
                    /\ InWindowCount(p, now) >= FAILURE_THRESHOLD
                    /\ RecordedFailuresOf(r, p) = {}
        /\ pc[r] = "fail_open" /\ pc'[r] = "done" =>
              /\ failures' = failures
              /\ cooldown_until' = cooldown_until

\* C38: a single request calls record_failure at most once per provider and
\* at most MAX_RETRIES times in total, so one request raises any provider's
\* in-window failure count by at most 1 and cannot by itself open the breaker
\* of a provider that had no failures in the window; neither the success nor
\* the failure of the fail-open invoke changes the Health Tracker.
C38_OneFailurePerProvider ==
    []C38_AtMostOncePerProvider /\ [][C38_Step]_vars

\* A request recorded one failure of P1 and one of P2, and its fail-open
\* invoke failed: each provider has the one timestamp the request added.
C38_Witness ==
    \E r \in Requests :
        /\ Cardinality(RecordedFailuresOf(r, "P1")) = 1
        /\ Cardinality(RecordedFailuresOf(r, "P2")) = 1
        /\ \E i \in FailOpenInvokes(r) : trace[r][i].res # "ok"
        /\ Len(failures["P1"]) = 1 /\ Len(failures["P2"]) = 1
        /\ cooldown_until = NoCooldown

\* The one failure a request recorded opened the breaker of P1, which
\* earlier requests had left with FAILURE_THRESHOLD failures.
C38_WitnessOpens ==
    \E r \in Requests :
        /\ Cardinality(RecordedFailuresOf(r, "P1")) = 1
        /\ Len(failures["P1"]) = FAILURE_THRESHOLD + 1
        /\ BreakerOpen(cooldown_until, "P1")

---------------------------------------------------------------------------
(* C39 *)

\* The routing context that the messages of r call for: complexity 0.9 and
\* domain medical when the last user message is the clinical prompt (it has
\* the keyword "Analyze" and the word "clinical"), complexity 0.1 and no
\* domain when it is "hello" or when there is no user message.
ExpectedContext(r) ==
    IF messages[r] = <<Message("user", ClinicalPrompt), Message("assistant", HelloPrompt)>>
    THEN RoutingContext(9000, "medical")
    ELSE RoutingContext(1000, NoDomain)

\* The classify calls of r.
ClassifyCalls(r) == {i \in Indices(r) : trace[r][i].op = "classify"}

\* An admitted request holds the context its messages call for; it was
\* computed by one classify call made before every Router call; its
\* complexity is 0.1 or 0.9, its baseline tier FAST or REASONING, whatever
\* the budget answer the target tier is the baseline tier, and the model the
\* Router returned is of that tier.
C39_ContextOfRequest ==
    \A r \in Requests : Classified(r) =>
        /\ routing_context[r] = ExpectedContext(r)
        /\ Cardinality(ClassifyCalls(r)) = 1
        /\ \A i \in ClassifyCalls(r) : \A j \in RouteCalls(r) : i < j
        /\ routing_context[r].complexity \in {1000, 9000}
        /\ BaselineTier(routing_context[r]) =
              (IF routing_context[r].complexity = 9000 THEN "reasoning" ELSE "fast")
        /\ \A answer \in BudgetAnswers :
              TargetTier(routing_context[r], answer) = BaselineTier(routing_context[r])
        /\ model_def[r] # NoModel => model_def[r].tier = BaselineTier(routing_context[r])

\* The context changes only in the step that admits the request.
C39_ContextStep ==
    \A r \in Requests :
        routing_context'[r] # routing_context[r] =>
            /\ pc[r] = "admission"
            /\ RouteCalls(r) = {}

\* C39: for every request handled by the Executor, the routing context is
\* computed once, before the first Router call, from the content of the last
\* message with role user (empty if none) and is reused unchanged in every
\* attempt; its complexity is always 0.1 or 0.9, so the baseline tier of an
\* Executor request is FAST or REASONING and never SMART, and the
\* economy-mode downgrade never changes the tier of any Executor request.
C39_ContextComputedOnce ==
    []C39_ContextOfRequest /\ [][C39_ContextStep]_vars

\* A request whose last user message is the clinical prompt made three
\* Router calls with a Budget client configured and was given a REASONING
\* model.
C39_Witness ==
    \E r \in Requests :
        /\ routing_context[r] = RoutingContext(9000, "medical")
        /\ router_budget_client # "None"
        /\ Cardinality(RouteCalls(r)) = MAX_RETRIES
        /\ model_def[r].tier = "reasoning"

\* A request with no message made a Router call and was given a FAST model.
C39_WitnessNoUserMessage ==
    \E r \in Requests :
        /\ messages[r] = <<>>
        /\ Classified(r)
        /\ routing_context[r] = RoutingContext(1000, NoDomain)
        /\ model_def[r].tier = "fast"

---------------------------------------------------------------------------
(* C40 *)

\* The Budget client that each budget interaction of r went to, read from
\* the state: check_allowance and deduct_funds are called on the client the
\* engine holds when the call is made, get_remaining_budget_percentage on the
\* client the Router holds.
AdmissionBudgetClient == budget_client
RouterBudgetClient == router_budget_client

\* C40, as claimed: all budget interactions of one request (check_allowance
\* at admission, get_remaining_budget_percentage in the Router, deduct_funds
\* after success) go to the same Budget client, namely the one currently
\* configured on the engine, also when configure() was called after the
\* client object was obtained from get_client().
C40_Original ==
    \A r \in Requests :
        /\ AccountingCalls(r, "check_allowance") # {} => AdmissionBudgetClient # "None"
        /\ AccountingCalls(r, "deduct_funds") # {} => AdmissionBudgetClient # "None"
        /\ RouteCalls(r) # {} => RouterBudgetClient = AdmissionBudgetClient

\* check_allowance and deduct_funds go to the client configured on the
\* engine: they are called only when there is one, and check_allowance is
\* the first call of every request made while there is one.
C40_EngineClientUsed ==
    \A r \in Requests :
        /\ AccountingCalls(r, "check_allowance") # {} => budget_client # "None"
        /\ AccountingCalls(r, "deduct_funds") # {} => budget_client # "None"
        /\ (budget_client # "None" /\ trace[r] # <<>>) => trace[r][1].op = "check_allowance"
=============================================================================
